---- MODULE Spec2Model ----
(***************************************************************************)
(* A model of pandas.core.series.Series: a value buffer paired with an     *)
(* ordered label index and a name.  A Series is a record                   *)
(*   [index, values, name, dtype];                                         *)
(* positions are 1-based (TLA+ sequences), the "absent" position of an     *)
(* indexer is -1 as in the code.  Values are integers standing for the     *)
(* integer-valued floats of a float64 buffer, NaN is a sentinel integer no *)
(* computation of the model can produce.                                   *)
(***************************************************************************)
EXTENDS Integers, Sequences, FiniteSets, TLC

\* ------------------------------------------------------------------ bounds
\* longest Series of an initial state
MaxLen == 2

\* ------------------------------------------------------- values and scalars
\* numpy.nan, the missing-value sentinel of a float buffer
NaN == -1000
\* Python None as a scalar argument (fill_value=None, value=None)
NoneV == -2000
\* the "absent" entry of an indexer
Absent == -1
\* name=None
NoName == "<None>"
\* the float 3.5, the one value of the model that is not a whole number
Frac == 3500

\* the labels, values and names the initial states and the arguments are drawn from
Labels == {1, 2, 3}
Vals == {NaN, 1, 2}
Names == {NoName, "x", "y"}
SmallLabels == {1, 2}
\* two labels that are not integers: the strings 'a' and 'b'
StrLabels == {101, 102}
SmallVals == {NaN, 1}

isnull(v) == v = NaN
notnull(v) == v # NaN

SeqsUpTo(S, n) == UNION {[1..k -> S] : k \in 0..n}

Range(s) == {s[i] : i \in DOMAIN s}

IsUnique(s) == \A i, j \in DOMAIN s : s[i] = s[j] => i = j

Perms(n) == {p \in [1..n -> 1..n] : \A i, j \in 1..n : p[i] = p[j] => i = j}

Min(S) == CHOOSE x \in S : \A y \in S : x <= y

RECURSIVE SortSet(_)
SortSet(S) == IF S = {} THEN <<>> ELSE <<Min(S)>> \o SortSet(S \ {Min(S)})

\* positions of s, in order, at which the mask holds  (idx[mask])
RECURSIVE MaskedPositions(_, _)
MaskedPositions(mask, i) ==
    IF i > Len(mask) THEN <<>>
    ELSE (IF mask[i] THEN <<i>> ELSE <<>>) \o MaskedPositions(mask, i + 1)

Reverse(s) == [i \in 1..Len(s) |-> s[Len(s) + 1 - i]]

\* arr[indexer] : gather through a sequence of positions
Gather(arr, positions) == [i \in 1..Len(positions) |-> arr[positions[i]]]

\* ------------------------------------------------------------------ Series
MkSeries(values, index, name, dtype) ==
    [index |-> index, values |-> values, name |-> name, dtype |-> dtype]

NoSeries == MkSeries(<<>>, <<>>, NoName, "float64")

\* what a call gives back: a Series, or an exception
Ok(s) == [st |-> "ok", s |-> s, same |-> FALSE]
OkSelf(s) == [st |-> "ok", s |-> s, same |-> TRUE]
Raise == [st |-> "raise", s |-> NoSeries, same |-> FALSE]

\* lib.SeriesIndex.__set__ : an index is accepted only for a buffer of its length
SeriesIndex_set_unchecked(values, index) == TRUE
SeriesIndex_set(values, index) == Len(values) = Len(index)

\* Series.__new__ with an ndarray as data
SeriesNew(values, index, name, dtype) ==
    IF SeriesIndex_set(values, index)
    THEN Ok(MkSeries(values, index, name, dtype))
    ELSE Raise

\* a _can_hold_na that says yes for every dtype
can_hold_na_always(s) == TRUE

\* Series._can_hold_na
can_hold_na(s) == s.dtype # "int64"

\* Series.copy
copy(s) == MkSeries(s.values, s.index, s.name, s.dtype)

\* ------------------------------------------------------------------- order
\* ndarray.argsort(kind='mergesort'): the stable sorting permutation
StableArgsort(arr) ==
    CHOOSE p \in Perms(Len(arr)) :
        \A i, j \in 1..Len(arr) :
            i < j => \/ arr[p[i]] < arr[p[j]]
                     \/ (arr[p[i]] = arr[p[j]] /\ p[i] < p[j])

try_mergesort(arr) == StableArgsort(arr)

\* a sortedIdx that never reverses the sorted positions
order_sortedIdx_always_ascending(arr, na_last, ascending) ==
    LET bad     == [i \in 1..Len(arr) |-> isnull(arr[i])]
        good    == [i \in 1..Len(arr) |-> ~bad[i]]
        idxgood == MaskedPositions(good, 1)
        idxbad  == MaskedPositions(bad, 1)
        sorted  == try_mergesort(Gather(arr, idxgood))
    IN  IF na_last
        THEN Gather(idxgood, sorted) \o idxbad
        ELSE idxbad \o Gather(idxgood, sorted)

\* the sortedIdx of Series.order
order_sortedIdx(arr, na_last, ascending) ==
    LET bad       == [i \in 1..Len(arr) |-> isnull(arr[i])]
        good      == [i \in 1..Len(arr) |-> ~bad[i]]
        idxgood   == MaskedPositions(good, 1)
        idxbad    == MaskedPositions(bad, 1)
        sorted    == try_mergesort(Gather(arr, idxgood))
        argsorted == IF ascending THEN sorted ELSE Reverse(sorted)
    IN  IF na_last
        THEN Gather(idxgood, argsorted) \o idxbad
        ELSE idxbad \o Gather(idxgood, argsorted)

\* Series.order
order(s, na_last, ascending) ==
    LET sortedIdx == order_sortedIdx(s.values, na_last, ascending)
    IN  SeriesNew(Gather(s.values, sortedIdx), Gather(s.index, sortedIdx),
                  s.name, s.dtype)

\* ------------------------------------------------- the Label Index (consumed)
\* Index.equals
index_equals(i1, i2) == i1 = i2

\* Index.get_loc on a unique index: the position of a label, Absent without it
get_loc(index, label) ==
    IF \E i \in DOMAIN index : index[i] = label
    THEN CHOOSE i \in DOMAIN index : index[i] = label
    ELSE Absent

\* Index.get_indexer: the position of each target label, Absent where it is missing
get_indexer(index, target) ==
    [i \in 1..Len(target) |-> get_loc(index, target[i])]

\* Index.union / self.index + other.index : the sorted union of the labels
index_union(i1, i2) ==
    IF index_equals(i1, i2) THEN i1 ELSE SortSet(Range(i1) \cup Range(i2))

\* Index.join(other, how='outer', return_indexers=True): the joined labels and one
\* position map per side; a side whose labels are the joined labels gets no indexer
index_join_outer(i1, i2) ==
    LET j == SortSet(Range(i1) \cup Range(i2))
    IN  [index |-> j,
         lidx  |-> get_indexer(i1, j), lnone |-> (j = i1),
         ridx  |-> get_indexer(i2, j), rnone |-> (j = i2)]

\* Index.insert(len(self), label)
index_insert_end(index, label) == Append(index, label)

\* Index.order(return_indexer=True, ascending=...): a stable sort of the labels
index_order_indexer(index, ascending) ==
    IF ascending THEN StableArgsort(index) ELSE Reverse(StableArgsort(index))

\* a _maybe_upcast that leaves every dtype as it is
maybe_upcast_never(dtype) == dtype

\* com._maybe_upcast: the dtype that can hold NaN
maybe_upcast(dtype) == IF dtype \in {"int64", "bool"} THEN "float64" ELSE dtype

\* com.take_1d: gather through an indexer, Absent gathers to fill_value
take_1d(arr, indexer, fill_value) ==
    [i \in 1..Len(indexer) |->
        IF indexer[i] = Absent THEN fill_value ELSE arr[indexer[i]]]

\* the dtype of com.take_1d's result: an integer buffer is upcast when a slot is absent
take_1d_dtype(dtype, indexer) ==
    IF \E i \in DOMAIN indexer : indexer[i] = Absent
    THEN maybe_upcast(dtype)
    ELSE dtype

\* ------------------------------------------------------ elementwise operators
ArithOps == {"add", "sub", "mul"}
CompOps == {"gt", "ge", "lt", "le", "eq", "ne"}
BoolOps == {"or", "and", "xor"}

\* operator.add, operator.sub, operator.mul on two floats: NaN propagates
arith(op, x, y) ==
    IF isnull(x) \/ isnull(y) THEN NaN
    ELSE CASE op = "add" -> x + y
           [] op = "sub" -> x - y
           [] op = "mul" -> x * y

\* operator.gt ... operator.ne on two floats, 1 for True and 0 for False:
\* every comparison with NaN is False, except != which is True
compare(op, x, y) ==
    IF isnull(x) \/ isnull(y) THEN (IF op = "ne" THEN 1 ELSE 0)
    ELSE CASE op = "gt" -> IF x > y THEN 1 ELSE 0
           [] op = "ge" -> IF x >= y THEN 1 ELSE 0
           [] op = "lt" -> IF x < y THEN 1 ELSE 0
           [] op = "le" -> IF x <= y THEN 1 ELSE 0
           [] op = "eq" -> IF x = y THEN 1 ELSE 0
           [] op = "ne" -> IF x # y THEN 1 ELSE 0

\* operator.or_, operator.and_, operator.xor on two non-negative integers
RECURSIVE bitop(_, _, _)
bitop(op, x, y) ==
    IF x = 0 /\ y = 0 THEN 0
    ELSE LET bx == x % 2
             by == y % 2
             b  == CASE op = "or"  -> IF bx + by > 0 THEN 1 ELSE 0
                     [] op = "and" -> IF bx + by = 2 THEN 1 ELSE 0
                     [] op = "xor" -> IF bx + by = 1 THEN 1 ELSE 0
         IN  b + 2 * bitop(op, x \div 2, y \div 2)

\* numpy broadcasting of two 1-d buffers: their common length, Absent when the
\* shapes do not broadcast
broadcast_len(x, y) ==
    IF Len(x) = Len(y) THEN Len(x)
    ELSE IF Len(y) = 1 THEN Len(x)
    ELSE IF Len(x) = 1 THEN Len(y)
    ELSE Absent

bcast(x, i) == IF Len(x) = 1 THEN x[1] ELSE x[i]

\* a name rule that always takes the left operand's name
maybe_match_name_left(a, b) == a.name

\* _maybe_match_name
maybe_match_name(a, b) == IF a.name = b.name THEN a.name ELSE NoName

\* the dtype of op(x, y) for two buffers
arith_dtype(d1, d2) == IF d1 = "float64" \/ d2 = "float64" THEN "float64" ELSE "int64"

\* _arith_method.na_op on two buffers of one length
arith_na_op(op, x, y) == [i \in 1..Len(x) |-> arith(op, x[i], y[i])]

\* an arithmetic wrapper that pairs the values by position, as the comparison
\* wrapper does
arith_method_positional(op, self, other) ==
    IF Len(self.values) = Len(other.values)
    THEN SeriesNew(arith_na_op(op, self.values, other.values), self.index,
                   maybe_match_name(self, other),
                   arith_dtype(self.dtype, other.dtype))
    ELSE Raise

\* _arith_method.wrapper with a Series as other
arith_method(op, self, other) ==
    IF index_equals(self.index, other.index)
    THEN SeriesNew(arith_na_op(op, self.values, other.values), self.index,
                   maybe_match_name(self, other),
                   arith_dtype(self.dtype, other.dtype))
    ELSE LET j       == index_join_outer(self.index, other.index)
             lvalues == IF j.lnone THEN self.values
                        ELSE take_1d(self.values, j.lidx, NaN)
             rvalues == IF j.rnone THEN other.values
                        ELSE take_1d(other.values, j.ridx, NaN)
             ldtype  == IF j.lnone THEN self.dtype
                        ELSE take_1d_dtype(self.dtype, j.lidx)
             rdtype  == IF j.rnone THEN other.dtype
                        ELSE take_1d_dtype(other.dtype, j.ridx)
         IN  SeriesNew(arith_na_op(op, lvalues, rvalues), j.index,
                       maybe_match_name(self, other), arith_dtype(ldtype, rdtype))

\* _arith_method.wrapper with a scalar as other
arith_method_scalar(op, self, v) ==
    SeriesNew([i \in 1..Len(self.values) |-> arith(op, self.values[i], v)],
              self.index, self.name, self.dtype)

\* _comp_method.na_op on two buffers that broadcast
comp_na_op(op, x, y) ==
    [i \in 1..broadcast_len(x, y) |-> compare(op, bcast(x, i), bcast(y, i))]

\* Series(scalar, index=index): _sanitize_array fills a buffer of the index's length
scalar_fill(v, index) == [i \in 1..Len(index) |-> v]

\* _comp_method.wrapper with a Series as other: the two buffers are compared as they
\* are and the result carries self's index.  Buffers whose shapes do not broadcast
\* make == and != give one scalar (False, True) and the other comparisons raise
comp_method(op, self, other) ==
    IF broadcast_len(self.values, other.values) # Absent
    THEN SeriesNew(comp_na_op(op, self.values, other.values), self.index,
                   maybe_match_name(self, other), "bool")
    ELSE IF op \in {"eq", "ne"}
    THEN SeriesNew(scalar_fill(IF op = "ne" THEN 1 ELSE 0, self.index),
                   self.index, maybe_match_name(self, other), "bool")
    ELSE Raise

\* _comp_method.wrapper with a scalar as other
comp_method_scalar(op, self, v) ==
    SeriesNew([i \in 1..Len(self.values) |-> compare(op, self.values[i], v)],
              self.index, self.name, "bool")

\* | & ^ on two elements: bitwise on integers and booleans; on floats the operator
\* raises TypeError and lib.vec_binop keeps a null operand, Absent stands for the
\* TypeError it lets through
boolop(op, isfloat, a, b) ==
    IF ~isfloat THEN bitop(op, a, b)
    ELSE IF isnull(a) \/ isnull(b) THEN NaN
    ELSE Absent

\* _bool_method.na_op on two buffers that broadcast
bool_na_op(op, isfloat, x, y) ==
    [i \in 1..broadcast_len(x, y) |-> boolop(op, isfloat, bcast(x, i), bcast(y, i))]

\* _bool_method.wrapper with a Series as other: no alignment, self's index
bool_method(op, self, other) ==
    LET isfloat == self.dtype = "float64" \/ other.dtype = "float64"
        n       == broadcast_len(self.values, other.values)
        res     == bool_na_op(op, isfloat, self.values, other.values)
    IN  IF n = Absent \/ (isfloat /\ Len(self.values) # Len(other.values))
        THEN Raise
        ELSE IF \E i \in DOMAIN res : res[i] = Absent THEN Raise
        ELSE SeriesNew(res, self.index, maybe_match_name(self, other),
                       IF isfloat THEN "float64"
                       ELSE IF self.dtype = "bool" /\ other.dtype = "bool" THEN "bool"
                       ELSE "int64")

\* _bool_method.wrapper with a scalar as other
bool_method_scalar(op, self, v) ==
    LET isfloat == self.dtype = "float64"
        res     == [i \in 1..Len(self.values) |-> boolop(op, isfloat, self.values[i], v)]
    IN  IF \E i \in DOMAIN res : res[i] = Absent THEN Raise
        ELSE SeriesNew(res, self.index, self.name,
                       IF isfloat THEN "float64" ELSE "int64")

\* Series._reindex_indexer: no indexer gives the Series itself (a copy when asked)
reindex_indexer(self, new_index, indexer, none, cp) ==
    IF none
    THEN (IF cp THEN Ok(copy(self)) ELSE OkSelf(self))
    ELSE SeriesNew(take_1d(self.values, indexer, NaN), new_index, self.name,
                   take_1d_dtype(self.dtype, indexer))

\* an align whose joined labels are self's labels alone, as join='left' gives
align_left_only(self, other, cp) ==
    [left  |-> reindex_indexer(self, self.index, <<>>, TRUE, cp),
     right |-> reindex_indexer(other, self.index,
                               get_indexer(other.index, self.index), FALSE, cp)]

\* Series.align(other, join='outer'): [left, right], each what _reindex_indexer gives
align(self, other, cp) ==
    LET j == index_join_outer(self.index, other.index)
    IN  [left  |-> reindex_indexer(self, j.index, j.lidx, j.lnone, cp),
         right |-> reindex_indexer(other, j.index, j.ridx, j.rnone, cp)]

\* buffers that fill_value never goes into
binop_filled_never(this_vals, other_vals, fill_value) ==
    [this |-> this_vals, other |-> other_vals]

\* buffers where fill_value goes into every missing position, without the
\* exclusive-or of the two masks
binop_filled_every(this_vals, other_vals, fill_value) ==
    IF fill_value = NoneV
    THEN [this |-> this_vals, other |-> other_vals]
    ELSE [this  |-> [i \in DOMAIN this_vals |->
                        IF isnull(this_vals[i]) THEN fill_value ELSE this_vals[i]],
          other |-> [i \in DOMAIN other_vals |->
                        IF isnull(other_vals[i]) THEN fill_value ELSE other_vals[i]]]

\* the two buffers of Series._binop after fill_value went in where exactly one side
\* is missing
binop_filled(this_vals, other_vals, fill_value) ==
    IF fill_value = NoneV
    THEN [this |-> this_vals, other |-> other_vals]
    ELSE LET this_mask  == [i \in DOMAIN this_vals |-> isnull(this_vals[i])]
             other_mask == [i \in DOMAIN other_vals |-> isnull(other_vals[i])]
             mask       == [i \in DOMAIN this_vals |-> this_mask[i] # other_mask[i]]
         IN  [this  |-> [i \in DOMAIN this_vals |->
                            IF this_mask[i] /\ mask[i] THEN fill_value
                            ELSE this_vals[i]],
              other |-> [i \in DOMAIN other_vals |->
                            IF other_mask[i] /\ mask[i] THEN fill_value
                            ELSE other_vals[i]]]

\* Series._binop(other, func, fill_value) with a Series as other
binop(self, other, func, fill_value) ==
    LET eq   == index_equals(self.index, other.index)
        al   == align(self, other, TRUE)
        this == IF eq THEN self ELSE al.left.s
        oth  == IF eq THEN other ELSE al.right.s
        b    == binop_filled(this.values, oth.values, fill_value)
    IN  SeriesNew(arith_na_op(func, b.this, b.other), this.index,
                  maybe_match_name(self, oth), arith_dtype(this.dtype, oth.dtype))

\* a reindex without the branch for equal labels
reindex_always_joins(self, index, fill_value, cp) ==
    IF Len(self.index) = 0
    THEN SeriesNew(scalar_fill(NaN, index), index, self.name, "float64")
    ELSE IF ~IsUnique(self.index) THEN Raise
    ELSE LET indexer == get_indexer(self.index, index)
         IN  SeriesNew(take_1d(self.values, indexer, fill_value), index, self.name,
                       take_1d_dtype(self.dtype, indexer))

\* Series.reindex(index, method=None, fill_value, copy)
reindex(self, index, fill_value, cp) ==
    IF index_equals(self.index, index)
    THEN (IF cp THEN Ok(MkSeries(copy(self).values, index, self.name, self.dtype))
          ELSE OkSelf(self))
    ELSE IF Len(self.index) = 0
    THEN SeriesNew(scalar_fill(NaN, index), index, self.name, "float64")
    ELSE IF ~IsUnique(self.index) THEN Raise
    ELSE LET indexer == get_indexer(self.index, index)
         IN  SeriesNew(take_1d(self.values, indexer, fill_value), index, self.name,
                       take_1d_dtype(self.dtype, indexer))

\* Series.get_value(label): index._engine.get_value, KeyError for an absent label
get_value(self, label) ==
    IF get_loc(self.index, label) = Absent
    THEN [st |-> "raise", s |-> NoneV, same |-> FALSE]
    ELSE [st |-> "ok", s |-> self.values[get_loc(self.index, label)], same |-> FALSE]

\* a get that lets the KeyError of get_value through
get_no_except(self, label, default) ==
    LET r == get_value(self, label)
    IN  IF r.st = "raise" THEN Absent ELSE r.s

\* Series.get(label, default) on a Series with unique labels: get_value, and default
\* on KeyError
get(self, label, default) ==
    LET r == get_value(self, label)
    IN  IF r.st = "raise" THEN default ELSE r.s

\* Series.combine(other, func, fill_value) with a Series as other: one call of func
\* per label of the union, the results stored in a buffer of self's dtype
combine(self, other, func, fill_value) ==
    LET new_index  == index_union(self.index, other.index)
        new_values == [i \in 1..Len(new_index) |->
                          arith(func, get(self, new_index[i], fill_value),
                                      get(other, new_index[i], fill_value))]
    IN  IF ~IsUnique(self.index) \/ ~IsUnique(other.index) THEN Raise
        ELSE IF self.dtype # "float64" /\ \E i \in DOMAIN new_values : isnull(new_values[i])
        THEN Raise
        ELSE SeriesNew(new_values, new_index, maybe_match_name(self, other), self.dtype)

\* a combine_first that takes other's value first
combine_first_other_first(self, other) ==
    LET new_index == index_union(self.index, other.index)
        this      == reindex(self, new_index, NaN, FALSE)
        oth       == reindex(other, new_index, NaN, FALSE)
    IN  IF this.st = "raise" \/ oth.st = "raise" THEN Raise
        ELSE SeriesNew([i \in 1..Len(new_index) |->
                           IF isnull(oth.s.values[i]) THEN this.s.values[i]
                           ELSE oth.s.values[i]],
                       new_index, maybe_match_name(self, oth.s),
                       arith_dtype(this.s.dtype, oth.s.dtype))

\* Series.combine_first
combine_first(self, other) ==
    LET new_index == index_union(self.index, other.index)
        this      == reindex(self, new_index, NaN, FALSE)
        oth       == reindex(other, new_index, NaN, FALSE)
    IN  IF this.st = "raise" \/ oth.st = "raise" THEN Raise
        ELSE SeriesNew([i \in 1..Len(new_index) |->
                           IF isnull(this.s.values[i]) THEN oth.s.values[i]
                           ELSE this.s.values[i]],
                       new_index, maybe_match_name(self, oth.s),
                       arith_dtype(this.s.dtype, oth.s.dtype))

\* np.putmask(values, mask, new): new's element where the mask holds
putmask(values, mask, new) ==
    [i \in DOMAIN values |-> IF mask[i] THEN new[i] ELSE values[i]]

\* a float64 element stored into a buffer of a dtype: an int64 buffer keeps the
\* whole part
astype(v, dtype) == IF dtype = "int64" /\ v = Frac THEN 3 ELSE v

\* Series.update: self's values after the call; Raise when other does not reindex.
\* np.putmask converts other's float64 values to the dtype of self's buffer: for an
\* int64 buffer numpy either casts them (unsafe_cast) or refuses the conversion
update(self, other, unsafe_cast) ==
    LET oth == reindex(other, self.index, NaN, TRUE)
    IN  IF oth.st = "raise" THEN Raise
        ELSE IF self.dtype = "int64" /\ oth.s.dtype = "float64" /\ ~unsafe_cast
        THEN Raise
        ELSE OkSelf(MkSeries(putmask(self.values,
                                     [i \in DOMAIN self.values |-> notnull(oth.s.values[i])],
                                     [i \in DOMAIN self.values |->
                                         astype(oth.s.values[i], self.dtype)]),
                             self.index, self.name, self.dtype))

\* a sort that writes the sorted values before it looks at the base of the buffer
sort_before_check(self, base_len) ==
    LET sortedSeries == order(self, TRUE, TRUE)
    IN  IF base_len # Len(self.values)
        THEN [st |-> "raise",
              s |-> MkSeries(sortedSeries.s.values, self.index, self.name, self.dtype),
              same |-> TRUE]
        ELSE OkSelf(MkSeries(sortedSeries.s.values, sortedSeries.s.index,
                             self.name, self.dtype))

\* Series.sort: values and index become those of self.order(na_last=True); base_len
\* is the length of the array at the end of the .base chain of self, and a Series
\* that is a view of an array of another shape refuses to sort
sort(self, base_len) ==
    LET sortedSeries == order(self, TRUE, TRUE)
    IN  IF sortedSeries.st = "raise" THEN Raise
        ELSE IF base_len # Len(self.values) THEN Raise
        ELSE IF ~SeriesIndex_set(sortedSeries.s.values, sortedSeries.s.index) THEN Raise
        ELSE OkSelf(MkSeries(sortedSeries.s.values, sortedSeries.s.index,
                             self.name, self.dtype))

\* a sort_index that sorts the labels and leaves the values where they were
sort_index_labels_only(self, ascending) ==
    LET indexer == index_order_indexer(self.index, ascending)
    IN  SeriesNew(self.values, Gather(self.index, indexer), self.name, self.dtype)

\* Series.sort_index
sort_index(self, ascending) ==
    LET indexer == index_order_indexer(self.index, ascending)
    IN  SeriesNew(Gather(self.values, indexer), Gather(self.index, indexer),
                  self.name, self.dtype)

\* com.pad_1d with a limit (NoneV: no limit): a missing value takes the last valid
\* value before it when at most limit missing values lie between
pad_1d(values, limit) ==
    [i \in DOMAIN values |->
        IF notnull(values[i]) THEN values[i]
        ELSE IF \E j \in 1..(i - 1) : notnull(values[j])
        THEN LET j == CHOOSE j \in 1..(i - 1) :
                         /\ notnull(values[j])
                         /\ \A k \in (j + 1)..(i - 1) : isnull(values[k])
             IN  IF limit = NoneV \/ i - j <= limit THEN values[j] ELSE NaN
        ELSE NaN]

\* com.backfill_1d
backfill_1d(values, limit) == Reverse(pad_1d(Reverse(values), limit))

\* a fill function that fills at most one missing value after a valid one
get_fill_func_limit_one(method, values, limit) ==
    IF method = "pad" THEN pad_1d(values, 1) ELSE backfill_1d(values, 1)

\* _get_fill_func
get_fill_func(method, values, limit) ==
    IF method = "pad" THEN pad_1d(values, limit) ELSE backfill_1d(values, limit)

\* a fillna that writes the value at every position
fillna_values_everywhere(self, value, method, limit) ==
    IF ~can_hold_na(self) THEN self.values
    ELSE IF value # NoneV
    THEN [i \in DOMAIN self.values |-> value]
    ELSE get_fill_func(method, self.values, limit)

\* Series.fillna: the values of the result (a copy, or self when inplace)
fillna_values(self, value, method, limit) ==
    IF ~can_hold_na(self) THEN self.values
    ELSE IF value # NoneV
    THEN putmask(self.values, [i \in DOMAIN self.values |-> isnull(self.values[i])],
                 [i \in DOMAIN self.values |-> value])
    ELSE get_fill_func(method, self.values, limit)

\* a fillna that works on self whatever inplace says
fillna_on_self(self, value, method, limit, inplace) ==
    OkSelf(MkSeries(fillna_values(self, value, method, limit), self.index,
                    self.name, self.dtype))

\* Series.fillna
fillna(self, value, method, limit, inplace) ==
    LET s == MkSeries(fillna_values(self, value, method, limit), self.index,
                      self.name, self.dtype)
    IN  IF inplace THEN OkSelf(s) ELSE Ok(s)

\* com.mask_missing(values, sset)
mask_missing(values, sset) == [i \in DOMAIN values |-> values[i] \in sset]

\* Series.replace._rep_one folded over the destinations, each with its sources
RECURSIVE rep_each(_, _, _, _)
rep_each(values, to_rep, dests, dtype) ==
    IF dests = <<>> THEN values
    ELSE LET d    == Head(dests)
             sset == {p[1] : p \in {q \in to_rep : q[2] = d}}
         IN  rep_each(putmask(values, mask_missing(values, sset),
                              [i \in DOMAIN values |-> astype(d, dtype)]),
                      to_rep, Tail(dests), dtype)

\* Series.replace._rep_dict: to_rep is a set of <<source, destination>> pairs with
\* distinct sources; np.putmask stores each destination converted to the dtype of
\* the buffer
rep_dict(values, to_rep, dtype) ==
    LET all_src == {p[1] : p \in to_rep}
        dests   == {p[2] : p \in to_rep}
    IN  IF \E d \in dests : d \in all_src
        THEN [i \in DOMAIN values |->
                 IF \E p \in to_rep : values[i] = p[1]
                 THEN astype((CHOOSE p \in to_rep : values[i] = p[1])[2], dtype)
                 ELSE values[i]]
        ELSE rep_each(values, to_rep, SortSet(dests), dtype)

\* Series.replace with two lists: Raise when their lengths differ
replace(self, to_replace, value, inplace) ==
    IF Len(to_replace) # Len(value) THEN Raise
    ELSE LET to_rep == {<<to_replace[i], value[i]>> : i \in DOMAIN to_replace}
             s      == MkSeries(rep_dict(self.values, to_rep, self.dtype), self.index,
                                self.name, self.dtype)
         IN  IF inplace THEN OkSelf(s) ELSE Ok(s)

\* Series.dropna / remove_na: arr[notnull(arr)]
dropna(self) ==
    LET keep == MaskedPositions([i \in DOMAIN self.values |-> notnull(self.values[i])], 1)
    IN  SeriesNew(Gather(self.values, keep), Gather(self.index, keep),
                  self.name, self.dtype)

\* one bound of a Python slice over n elements: None (NoneV) is the default, a
\* negative bound counts from the end, and the bound is clipped to 0..n
slice_bound(n, b, default) ==
    IF b = NoneV THEN default
    ELSE IF b < 0 THEN (IF b + n < 0 THEN 0 ELSE b + n)
    ELSE IF b > n THEN n ELSE b

\* the positions (1-based, in order) of the slice [start:stop] of n elements
slice_positions(n, start, stop) ==
    LET lo == slice_bound(n, start, 0)
        hi == slice_bound(n, stop, n)
    IN  [i \in 1..(IF hi > lo THEN hi - lo ELSE 0) |-> lo + i]

\* buf[start:stop] = src is accepted: src has the slice's length, or one element
\* that numpy broadcasts
slice_fits(buf, start, stop, src) ==
    Len(src) = Len(slice_positions(Len(buf), start, stop)) \/ Len(src) = 1

\* buf[start:stop] = src for an array src that fits: the buffer after the assignment
slice_assign(buf, start, stop, src) ==
    LET pos == slice_positions(Len(buf), start, stop)
    IN  [i \in DOMAIN buf |->
            IF \E k \in DOMAIN pos : pos[k] = i
            THEN bcast(src, CHOOSE k \in DOMAIN pos : pos[k] = i)
            ELSE buf[i]]

\* a shift that moves the values the other way
shift_backwards(self, periods) ==
    LET n == Len(self.values)
    IN  IF periods = 0 THEN Ok(copy(self))
        ELSE SeriesNew([i \in 1..n |->
                           IF 1 <= i + periods /\ i + periods <= n
                           THEN self.values[i + periods] ELSE NaN],
                       self.index, self.name, maybe_upcast(self.dtype))

\* Series.shift(periods) without an offset: the new buffer starts as np.empty
\* (uninitialised, Absent here) and is written by two slice assignments
shift(self, periods) ==
    LET n     == Len(self.values)
        empty == [i \in 1..n |-> Absent]
        src   == IF periods > 0
                 THEN Gather(self.values, slice_positions(n, NoneV, 0 - periods))
                 ELSE Gather(self.values, slice_positions(n, 0 - periods, NoneV))
        fits  == IF periods > 0 THEN slice_fits(empty, periods, NoneV, src)
                 ELSE slice_fits(empty, NoneV, periods, src)
        moved == IF periods > 0 THEN slice_assign(empty, periods, NoneV, src)
                 ELSE slice_assign(empty, NoneV, periods, src)
        new_values == IF periods > 0
                      THEN slice_assign(moved, NoneV, periods, <<NaN>>)
                      ELSE slice_assign(moved, periods, NoneV, <<NaN>>)
    IN  IF periods = 0 THEN Ok(copy(self))
        ELSE IF ~fits THEN Raise
        ELSE SeriesNew(new_values, self.index, self.name, maybe_upcast(self.dtype))

\* index._engine.set_value(self, label, value): the buffer with value at the label
engine_set_value(self, label, value) ==
    [i \in DOMAIN self.values |->
        IF self.index[i] = label THEN value ELSE self.values[i]]

\* the dtype of np.concatenate([values, [value]]): a float joins integers as floats
concatenate_dtype(dtype, value) ==
    IF dtype = "int64" /\ (isnull(value) \/ value = Frac) THEN "float64" ELSE dtype

\* a set_value that puts a new label first instead of last
set_value_insert_front(self, label, value) ==
    IF get_loc(self.index, label) # Absent
    THEN OkSelf(MkSeries(engine_set_value(self, label, value), self.index,
                         self.name, self.dtype))
    ELSE SeriesNew(<<value>> \o self.values, <<label>> \o self.index, self.name,
                   concatenate_dtype(self.dtype, value))

\* a set_value that grows the calling Series itself when the label is new
set_value_grow_self(self, label, value) ==
    IF get_loc(self.index, label) # Absent
    THEN OkSelf(MkSeries(engine_set_value(self, label, value), self.index,
                         self.name, self.dtype))
    ELSE OkSelf(MkSeries(self.values \o <<value>>, index_insert_end(self.index, label),
                         self.name, concatenate_dtype(self.dtype, value)))

\* Series.set_value: in place when the label is contained, else a new, longer Series
set_value(self, label, value) ==
    IF get_loc(self.index, label) # Absent
    THEN OkSelf(MkSeries(engine_set_value(self, label, value), self.index,
                         self.name, self.dtype))
    ELSE LET new_index == IF Len(self.index) = 0 THEN <<label>>
                          ELSE index_insert_end(self.index, label)
         IN  SeriesNew(self.values \o <<value>>, new_index, self.name,
                       concatenate_dtype(self.dtype, value))

\* com.is_integer(key)
is_integer(key) == key \notin StrLabels

\* index.inferred_type == 'integer': a non-empty index of integer labels only
inferred_type_integer(index) ==
    Len(index) > 0 /\ \A i \in DOMAIN index : is_integer(index[i])

\* values[key] = value for an integer key: the position (1-based) a Python index
\* names in a buffer of n elements, Absent when it is out of range
position_of(n, key) ==
    LET k == IF key < 0 THEN key + n ELSE key
    IN  IF 0 <= k /\ k < n THEN k + 1 ELSE Absent

\* a __setitem__ that appends the pair when the key is not a label
setitem_upsert(self, key, value) ==
    IF get_loc(self.index, key) # Absent
    THEN OkSelf(MkSeries(engine_set_value(self, key, value), self.index,
                         self.name, self.dtype))
    ELSE OkSelf(MkSeries(Append(self.values, value), Append(self.index, key),
                         self.name, self.dtype))

\* Series.__setitem__ with one hashable key: the label when the index has it, else
\* the position when the key is an integer and the labels are not integers
setitem(self, key, value) ==
    IF get_loc(self.index, key) # Absent
    THEN OkSelf(MkSeries(engine_set_value(self, key, value), self.index,
                         self.name, self.dtype))
    ELSE IF is_integer(key) /\ ~inferred_type_integer(self.index)
    THEN (IF position_of(Len(self.values), key) = Absent THEN Raise
          ELSE OkSelf(MkSeries([self.values EXCEPT
                                   ![position_of(Len(self.values), key)] = value],
                               self.index, self.name, self.dtype)))
    ELSE Raise

\* a _set_labels that writes at the labels it finds before it raises for the others
set_labels_partial(self, key, value) ==
    LET indexer == get_indexer(self.index, key)
        written == MkSeries([i \in DOMAIN self.values |->
                                IF \E k \in DOMAIN indexer : indexer[k] = i
                                THEN value ELSE self.values[i]],
                            self.index, self.name, self.dtype)
    IN  IF \E i \in DOMAIN indexer : indexer[i] = Absent
        THEN [st |-> "raise", s |-> written, same |-> TRUE]
        ELSE OkSelf(written)

\* Series._set_labels, reached by __setitem__ with a list of labels as key
set_labels(self, key, value) ==
    LET indexer == get_indexer(self.index, key)
    IN  IF \E i \in DOMAIN indexer : indexer[i] = Absent THEN Raise
        ELSE OkSelf(MkSeries([i \in DOMAIN self.values |->
                                 IF \E k \in DOMAIN indexer : indexer[k] = i
                                 THEN value ELSE self.values[i]],
                             self.index, self.name, self.dtype))

\* Series._set_values with a list of integer positions: values[key] = value; a
\* position out of range raises IndexError
set_values(self, key, value) ==
    LET pos == [k \in DOMAIN key |-> position_of(Len(self.values), key[k])]
    IN  IF \E k \in DOMAIN pos : pos[k] = Absent THEN Raise
        ELSE OkSelf(MkSeries([i \in DOMAIN self.values |->
                                 IF \E k \in DOMAIN pos : pos[k] = i
                                 THEN value ELSE self.values[i]],
                             self.index, self.name, self.dtype))

\* a _set_with that takes every list as a list of labels
set_with_labels(self, key, value) == set_labels(self, key, value)

\* Series._get_values with a list of integer positions: the values and the labels
\* at the positions; a position out of range raises IndexError
get_values(self, key) ==
    LET pos == [k \in DOMAIN key |-> position_of(Len(self.values), key[k])]
    IN  IF \E k \in DOMAIN pos : pos[k] = Absent THEN Raise
        ELSE SeriesNew(Gather(self.values, pos), Gather(self.index, pos),
                       self.name, self.dtype)

\* Series._get_with with a list as key: a list of integers is a list of positions
\* unless the labels are integers, every other list is reindexed to
get_with(self, key) ==
    IF Len(key) > 0 /\ (\A k \in DOMAIN key : is_integer(key[k]))
            /\ ~inferred_type_integer(self.index)
    THEN get_values(self, key)
    ELSE reindex(self, key, NaN, TRUE)

\* Series._set_with with a list as key: a list of integers is a list of positions
\* unless the labels are integers, every other list is a list of labels
set_with(self, key, value) ==
    IF Len(key) > 0 /\ (\A k \in DOMAIN key : is_integer(key[k]))
            /\ ~inferred_type_integer(self.index)
    THEN set_values(self, key, value)
    ELSE set_labels(self, key, value)

\* Series._set_values with a boolean array as key: values[key] = value; a missing
\* value cannot be converted for an integer buffer
set_values_mask(self, mask, value) ==
    IF self.dtype = "int64" /\ isnull(value) THEN Raise
    ELSE OkSelf(MkSeries(putmask(self.values, mask,
                                 [i \in DOMAIN self.values |-> astype(value, self.dtype)]),
                         self.index, self.name, self.dtype))

\* Series.where(cond, other, inplace) with an array of booleans as cond and a scalar
\* as other: ser._set_with(~cond, other)
where_scalar(self, cond, other, inplace) ==
    IF Len(cond) # Len(self.values) THEN Raise
    ELSE LET r == set_values_mask(self, [i \in DOMAIN cond |-> ~cond[i]], other)
         IN  IF r.st = "raise" THEN Raise
             ELSE IF inplace THEN r ELSE Ok(r.s)

\* Series.where(cond, other, inplace) with an array of booleans as cond and a list
\* as other: np.putmask(ser, ~cond, other) after the two length checks
where(self, cond, other, inplace) ==
    IF Len(cond) # Len(self.values) THEN Raise
    ELSE IF Len(other) # Len(self.values) THEN Raise
    ELSE LET s == MkSeries(putmask(self.values, [i \in DOMAIN cond |-> ~cond[i]],
                                   [i \in DOMAIN other |-> astype(other[i], self.dtype)]),
                           self.index, self.name, self.dtype)
         IN  IF inplace THEN OkSelf(s) ELSE Ok(s)

\* ------------------------------------------------------------------- state
\* reg: the Series the program holds, by variable name;
\* call: the last call made: its operation and arguments, the receiver and the
\* other operand as they were before the call, and what the call gave back
VARIABLES reg, call

vars == <<reg, call>>

Regs == {"A", "B"}

OtherReg(r) == IF r = "A" THEN "B" ELSE "A"

MkCall(op, recv, self, other, fn, val, key, f1, f2, r) ==
    [op |-> op, recv |-> recv, self |-> self, other |-> other, fn |-> fn,
     val |-> val, key |-> key, f1 |-> f1, f2 |-> f2,
     st |-> r.st, ret |-> r.s, same |-> r.same, ret2 |-> NoSeries]

NoCall ==
    MkCall("init", "A", NoSeries, NoSeries, "", NoneV, <<>>, FALSE, FALSE,
           [st |-> "init", s |-> NoSeries, same |-> FALSE])

\* the receiver after a call that may have worked in place
InPlace(r) == IF r.same THEN [reg EXCEPT !.A = r.s] ELSE reg

\* the receiver after the call c: a call that returns a new Series has written
\* nothing into its receiver
AfterCall(c) == InPlace([st |-> c.st, s |-> c.ret, same |-> c.same])

\* the Series of a dtype with labels from L, values from V and names from N, of
\* length at most n
SeriesOver(L, V, N, dtype, n) ==
    UNION {{MkSeries(v, i, nm, dtype) :
                v \in [1..k -> V], i \in [1..k -> L], nm \in N} :
           k \in 0..n}

Unique(S) == {s \in S : IsUnique(s.index)}

FloatSeries(n, names) == SeriesOver(Labels, Vals, names, "float64", n)

UniqueFloatSeries(n, names) == Unique(FloatSeries(n, names))

\* ------------------------------------------------- specification: order()
InitOrder ==
    /\ \E s \in FloatSeries(MaxLen + 1, {"x"}) : reg = [A |-> s, B |-> NoSeries]
    /\ call = NoCall

\* y = A.order(na_last, ascending)
Order ==
    /\ \E na_last \in BOOLEAN, ascending \in BOOLEAN :
          call' = MkCall("order", "A", reg.A, NoSeries, "", NoneV, <<>>,
                         na_last, ascending, order(reg.A, na_last, ascending))
    /\ reg' = AfterCall(call')

NextOrder == Order

SpecOrder == InitOrder /\ [][NextOrder]_vars

\* number of positions of Series s that hold the pair (label, value)
CountPair(s, l, v) ==
    Cardinality({i \in DOMAIN s.index : s.index[i] = l /\ s.values[i] = v})

\* C9: order() returns a permutation of the source's (label, value) pairs, its
\* non-missing values in non-decreasing order (non-increasing when ascending is
\* false), the missing values after all the others when na_last and before them
\* when not
C9_OrderSortedPermutation ==
    call.op = "order" =>
        LET src == call.self
            res == call.ret
            n   == Len(res.values)
        IN  /\ call.st = "ok"
            /\ Len(res.index) = Len(src.index)
            /\ n = Len(src.values)
            /\ res.name = src.name
            /\ \A l \in Range(src.index) \cup Range(res.index) :
                 \A v \in Range(src.values) \cup Range(res.values) :
                    CountPair(res, l, v) = CountPair(src, l, v)
            /\ \A i, j \in 1..n :
                 (i < j /\ notnull(res.values[i]) /\ notnull(res.values[j])) =>
                    IF call.f2 THEN res.values[i] <= res.values[j]
                    ELSE res.values[i] >= res.values[j]
            /\ \A i, j \in 1..n :
                 (isnull(res.values[i]) /\ notnull(res.values[j])) =>
                    IF call.f1 THEN j < i ELSE i < j

\* a descending order() of a Series with a missing value in the middle and two
\* distinct values, missing values first
C9_Witness ==
    /\ call.op = "order" /\ call.st = "ok"
    /\ ~call.f1 /\ ~call.f2
    /\ Len(call.self.values) = 3
    /\ call.self.values = <<1, NaN, 2>>
    /\ call.ret.values = <<NaN, 2, 1>>

\* position of label l in a Series with unique labels
PosOf(s, l) == CHOOSE i \in DOMAIN s.index : s.index[i] = l

\* C10: order() with mergesort keeps two non-missing elements of equal value in
\* their source order, for every ascending and na_last
C10_OrderStable ==
    (call.op = "order" /\ call.st = "ok" /\ IsUnique(call.self.index)) =>
        \A i, j \in DOMAIN call.self.values :
            (i < j /\ notnull(call.self.values[i])
                   /\ call.self.values[i] = call.self.values[j]) =>
                PosOf(call.ret, call.self.index[i]) < PosOf(call.ret, call.self.index[j])

\* ------------------------------------------------------------- operations
\* scalar operands and fill values
Scalars == {2}
FillValues == {NoneV, 0}

\* y = A <op> B for an arithmetic operator
Arith ==
    /\ \E op \in ArithOps :
          call' = MkCall("arith", "A", reg.A, reg.B, op, NoneV, <<>>, FALSE, FALSE,
                         arith_method(op, reg.A, reg.B))
    /\ reg' = AfterCall(call')

\* y = A <op> v for an arithmetic operator and a scalar
ArithScalar ==
    /\ \E op \in ArithOps, v \in Scalars :
          call' = MkCall("arith_scalar", "A", reg.A, NoSeries, op, v, <<>>, FALSE, FALSE,
                         arith_method_scalar(op, reg.A, v))
    /\ reg' = AfterCall(call')

\* y = A <op> B for a comparison operator
Comp ==
    /\ \E op \in CompOps :
          call' = MkCall("comp", "A", reg.A, reg.B, op, NoneV, <<>>, FALSE, FALSE,
                         comp_method(op, reg.A, reg.B))
    /\ reg' = AfterCall(call')

\* y = A <op> v for a comparison operator and a scalar
CompScalar ==
    /\ \E op \in CompOps, v \in Scalars :
          call' = MkCall("comp_scalar", "A", reg.A, NoSeries, op, v, <<>>, FALSE, FALSE,
                         comp_method_scalar(op, reg.A, v))
    /\ reg' = AfterCall(call')

\* y = A <op> B for a boolean operator
Bool ==
    /\ \E op \in BoolOps :
          call' = MkCall("bool", "A", reg.A, reg.B, op, NoneV, <<>>, FALSE, FALSE,
                         bool_method(op, reg.A, reg.B))
    /\ reg' = AfterCall(call')

\* y = A <op> v for a boolean operator and a scalar
BoolScalar ==
    /\ \E op \in BoolOps, v \in Scalars :
          call' = MkCall("bool_scalar", "A", reg.A, NoSeries, op, v, <<>>, FALSE, FALSE,
                         bool_method_scalar(op, reg.A, v))
    /\ reg' = AfterCall(call')

\* y = A.add(B, fill_value=fv), A.sub(...), A.mul(...)
Flex ==
    /\ \E op \in ArithOps, fv \in FillValues :
          call' = MkCall("flex", "A", reg.A, reg.B, op, fv, <<>>, FALSE, FALSE,
                         binop(reg.A, reg.B, op, fv))
    /\ reg' = AfterCall(call')

\* y = A.combine(B, func, fill_value)
Combine ==
    /\ \E op \in ArithOps, fv \in {NaN, 0} :
          call' = MkCall("combine", "A", reg.A, reg.B, op, fv, <<>>, FALSE, FALSE,
                         combine(reg.A, reg.B, op, fv))
    /\ reg' = AfterCall(call')

\* y = A.combine_first(B)
CombineFirst ==
    /\ call' = MkCall("combine_first", "A", reg.A, reg.B, "", NoneV, <<>>, FALSE, FALSE,
                      combine_first(reg.A, reg.B))
    /\ reg' = AfterCall(call')

\* y = A.reindex(key, fill_value=fv, copy=cp), the new labels drawn from keys and
\* the fill value from fvs
Reindex(keys, fvs) ==
    /\ \E key \in keys, fv \in fvs, cp \in BOOLEAN :
          call' = MkCall("reindex", "A", reg.A, NoSeries, "", fv, key, cp, FALSE,
                         reindex(reg.A, key, fv, cp))
    /\ reg' = AfterCall(call')

\* y = A.combine(v, func) with a scalar
CombineScalar ==
    /\ \E op \in ArithOps, v \in Scalars :
          call' = MkCall("combine_scalar", "A", reg.A, NoSeries, op, v, <<>>, FALSE, FALSE,
                         arith_method_scalar(op, reg.A, v))
    /\ reg' = AfterCall(call')

\* y = A.sort_index(ascending)
SortIndex ==
    /\ \E ascending \in BOOLEAN :
          call' = MkCall("sort_index", "A", reg.A, NoSeries, "", NoneV, <<>>,
                         ascending, FALSE, sort_index(reg.A, ascending))
    /\ reg' = AfterCall(call')

\* y = A.shift(periods), the number of periods drawn from ks
Shift(ks) ==
    /\ \E periods \in ks :
          call' = MkCall("shift", "A", reg.A, NoSeries, "", periods, <<>>, FALSE, FALSE,
                         shift(reg.A, periods))
    /\ reg' = AfterCall(call')

\* y = A.dropna()
DropNa ==
    /\ call' = MkCall("dropna", "A", reg.A, NoSeries, "", NoneV, <<>>, FALSE, FALSE,
                      dropna(reg.A))
    /\ reg' = AfterCall(call')

\* y = A.fillna(value) or A.fillna(method=..., limit=...), in place or not, the
\* value drawn from values
Fillna(values) ==
    \E value \in values, method \in {"pad", "backfill"}, limit \in {NoneV, 1},
       inplace \in BOOLEAN :
        LET r == fillna(reg.A, value, method, limit, inplace)
        IN  /\ value # NoneV => (method = "pad" /\ limit = NoneV)
            /\ call' = MkCall("fillna", "A", reg.A, NoSeries, method, value, <<limit>>,
                              inplace, FALSE, r)
            /\ reg' = InPlace(r)

\* the list arguments of replace: one pair, a swap, and lists of two lengths
ReplaceLists ==
    {<<<<1>>, <<NaN>>>>, <<<<NaN, 1>>, <<1, NaN>>>>, <<<<1>>, <<NaN, 1>>>>}

\* y = A.replace(to_replace, value) with two lists, in place or not
Replace(pairs) ==
    \E lists \in pairs, inplace \in BOOLEAN :
        LET to_replace == lists[1]
            value      == lists[2]
            r          == replace(reg.A, to_replace, value, inplace)
        IN  /\ call' = MkCall("replace", "A", reg.A, NoSeries, "", NoneV,
                              to_replace \o value, inplace, FALSE, r)
            /\ reg' = InPlace(r)

\* A.update(B)
Update ==
    \E unsafe_cast \in BOOLEAN :
        LET r == update(reg.A, reg.B, unsafe_cast)
        IN  /\ call' = MkCall("update", "A", reg.A, reg.B, "", NoneV, <<>>,
                              unsafe_cast, FALSE, r)
            /\ reg' = InPlace(r)

\* A.sort()
Sort(extras) ==
    \E extra \in extras :
        LET r == sort(reg.A, Len(reg.A.values) + extra)
        IN  /\ call' = MkCall("sort", "A", reg.A, NoSeries, "", NoneV, <<extra>>,
                              FALSE, FALSE, r)
            /\ reg' = InPlace(r)

\* A[key] = v, the key drawn from keys
SetItem(keys) ==
    \E label \in keys, v \in SmallVals :
        LET r == setitem(reg.A, label, v)
        IN  /\ call' = MkCall("setitem", "A", reg.A, NoSeries, "", v, <<label>>,
                              FALSE, FALSE, r)
            /\ reg' = InPlace(r)

\* A[[labels]] = v
SetLabels(keys) ==
    \E key \in keys, v \in {1} :
        LET r == set_with(reg.A, key, v)
        IN  /\ Len(key) > 0
            /\ call' = MkCall("set_labels", "A", reg.A, NoSeries, "", v, key,
                              FALSE, FALSE, r)
            /\ reg' = InPlace(r)

\* y = A.set_value(label, v); the Series does not grow past MaxLen + 1 labels
SetValue(vs) ==
    \E label \in Labels, v \in vs :
        LET r == set_value(reg.A, label, v)
        IN  /\ Len(reg.A.index) <= MaxLen
            /\ call' = MkCall("set_value", "A", reg.A, NoSeries, "", v, <<label>>,
                              FALSE, FALSE, r)
            /\ reg' = InPlace(r)

\* A = Series(values, index=index): the constructor, given a list and labels
Construct ==
    \E values \in {<<>>, <<1>>, <<1, NaN>>}, index \in {<<>>, <<1>>, <<2, 1>>} :
        LET r == SeriesNew(values, index, "x", "float64")
        IN  /\ call' = MkCall("construct", "A", NoSeries, NoSeries, "", NoneV, index,
                              FALSE, FALSE, r)
            /\ reg' = IF r.st = "ok" THEN [reg EXCEPT !.A = r.s] ELSE reg

\* A = y: the name A is bound to the Series the last call returned, kept to the
\* Series the initial states are drawn from
Bind ==
    /\ call.st = "ok"
    /\ call.ret \in SeriesOver(SmallLabels, SmallVals, {"x"}, "float64", MaxLen)
    /\ reg' = [reg EXCEPT !.A = call.ret]
    /\ call' = MkCall("bind", "A", reg.A, NoSeries, "", NoneV, <<>>, FALSE, FALSE,
                      OkSelf(call.ret))

\* --------------------------------- specification: arithmetic operators
InitArith ==
    /\ \E a \in UniqueFloatSeries(MaxLen, {"x"}), b \in UniqueFloatSeries(MaxLen, {"x"}) :
          reg = [A |-> a, B |-> b]
    /\ call = NoCall

NextArith == Arith \/ ArithScalar

SpecArith == InitArith /\ [][NextArith]_vars

\* the value a Series with unique labels holds at a label it has
At(s, l) == s.values[PosOf(s, l)]

\* C2: an arithmetic operator on two Series with unique, differing labels gives the
\* sorted union of the labels, op(A[l], B[l]) at a label l of both and a missing
\* value at a label one of them lacks
C2_ArithAlignsOnSortedUnion ==
    (/\ call.op = "arith"
     /\ IsUnique(call.self.index) /\ IsUnique(call.other.index)
     /\ call.self.index # call.other.index) =>
        LET la  == Range(call.self.index)
            lb  == Range(call.other.index)
            res == call.ret
        IN  /\ call.st = "ok"
            /\ Len(res.values) = Len(res.index)
            /\ Range(res.index) = la \cup lb
            /\ \A i, j \in DOMAIN res.index : i < j => res.index[i] < res.index[j]
            /\ \A i \in DOMAIN res.index :
                 LET l == res.index[i]
                 IN  IF l \in la /\ l \in lb
                     THEN res.values[i] = arith(call.fn, At(call.self, l), At(call.other, l))
                     ELSE isnull(res.values[i])

\* 2 - 1 at the one shared label of two Series in different label order, missing
\* values at the two labels only one of them has
C2_Witness ==
    /\ call.op = "arith" /\ call.st = "ok" /\ call.fn = "sub"
    /\ call.self.index = <<3, 1>> /\ call.self.values = <<2, 1>>
    /\ call.other.index = <<2, 3>> /\ call.other.values = <<2, 1>>
    /\ call.ret.index = <<1, 2, 3>>
    /\ call.ret.values = <<NaN, NaN, 1>>

\* ------------------------------------------- specification: every operation
InitAll ==
    /\ \E a \in SeriesOver(SmallLabels, SmallVals, {"x"}, "float64", MaxLen),
          b \in Unique(SeriesOver(SmallLabels, {1}, {"x"}, "float64", MaxLen)) :
          reg = [A |-> a, B |-> b]
    /\ call = NoCall

NextAll ==
    \/ Construct \/ SetItem(Labels) \/ SetLabels(SeqsUpTo(SmallLabels, 2)) \/ SetValue(SmallVals) \/ Fillna({NoneV, 1}) \/ Replace(ReplaceLists) \/ Update
    \/ Sort({0}) \/ Order \/ SortIndex \/ Shift({0 - (MaxLen + 1), 0 - 1, 0, 1, MaxLen + 1})
    \/ Reindex(SeqsUpTo(SmallLabels, MaxLen), {NaN})
    \/ DropNa \/ Combine \/ CombineFirst \/ Arith \/ Comp \/ Bool \/ Flex \/ Bind

SpecAll == InitAll /\ [][NextAll]_vars

\* C1: after any sequence of operations every Series produced or mutated has as
\* many values as labels
C1_LengthsAgree ==
    /\ \A r \in Regs : Len(reg[r].values) = Len(reg[r].index)
    /\ call.st = "ok" => Len(call.ret.values) = Len(call.ret.index)

\* set_value with a label the Series lacks gives a new Series, one label and one
\* value longer
C1_Witness ==
    /\ call.op = "set_value" /\ call.st = "ok" /\ ~call.same
    /\ call.self.values = <<1, 1>> /\ call.self.index = <<2, 1>>
    /\ Len(call.ret.index) = 3 /\ Len(call.ret.values) = 3

\* ------------------------ specification: comparison and boolean operators
\* the int64 Series with unique labels: no missing values
UniqueIntSeries(n, names) == Unique(SeriesOver(Labels, {1, 2}, names, "int64", n))

InitCompare ==
    /\ \E a \in UniqueFloatSeries(MaxLen, {"x"}) \cup UniqueIntSeries(MaxLen, {"x"}),
          b \in UniqueFloatSeries(MaxLen, {"x"}) \cup UniqueIntSeries(MaxLen, {"x"}) :
          reg = [A |-> a, B |-> b]
    /\ call = NoCall

NextCompare == Comp \/ Bool

SpecCompare == InitCompare /\ [][NextCompare]_vars

\* C3: a comparison or boolean operator on two Series with differing labels gives,
\* at each label, the operator applied to the two values that carry that label
C3_CompareAlignsByLabel ==
    (/\ call.op \in {"comp", "bool"} /\ call.st = "ok"
     /\ IsUnique(call.self.index) /\ IsUnique(call.other.index)
     /\ call.self.index # call.other.index) =>
        \A i \in DOMAIN call.ret.index :
            LET l == call.ret.index[i]
            IN  (l \in Range(call.self.index) /\ l \in Range(call.other.index)) =>
                    call.ret.values[i] =
                        IF call.op = "comp"
                        THEN compare(call.fn, At(call.self, l), At(call.other, l))
                        ELSE boolop(call.fn, call.ret.dtype = "float64",
                                    At(call.self, l), At(call.other, l))

\* ------------------------------------ specification: the name of a result
NamedSeries ==
    Unique(SeriesOver(SmallLabels, SmallVals, Names, "float64", MaxLen))
        \cup Unique(SeriesOver(SmallLabels, {1}, Names, "int64", MaxLen))

InitNames ==
    /\ \E a \in NamedSeries, b \in NamedSeries : reg = [A |-> a, B |-> b]
    /\ call = NoCall

NextNames ==
    \/ Arith \/ Comp \/ Bool \/ Flex \/ Combine \/ CombineFirst
    \/ ArithScalar \/ CompScalar \/ BoolScalar \/ CombineScalar

SpecNames == InitNames /\ [][NextNames]_vars

\* C4: the result of a binary operation between two Series has the operands' name
\* when both have the same name and no name otherwise; with a scalar on the right
\* the result keeps the Series's name
C4_ResultName ==
    /\ (call.op \in {"arith", "comp", "bool", "flex", "combine", "combine_first"}
            /\ call.st = "ok") =>
          call.ret.name = IF call.self.name = call.other.name THEN call.self.name
                          ELSE NoName
    /\ (call.op \in {"arith_scalar", "comp_scalar", "bool_scalar", "combine_scalar"}
            /\ call.st = "ok") =>
          call.ret.name = call.self.name

\* combine_first of a Series named x with one named y, over different labels, gives
\* a Series without a name
C4_Witness ==
    /\ call.op = "combine_first" /\ call.st = "ok"
    /\ call.self.name = "x" /\ call.other.name = "y"
    /\ call.self.index = <<2>> /\ call.other.index = <<1, 2>>
    /\ call.ret.name = NoName
    /\ Len(call.ret.index) = 2

\* ------------------- specification: the flexible operators with fill_value
InitFlex ==
    /\ \E a \in UniqueFloatSeries(MaxLen, {"x"}), b \in UniqueFloatSeries(MaxLen, {"x"}) :
          reg = [A |-> a, B |-> b]
    /\ call = NoCall

NextFlex == Flex

SpecFlex == InitFlex /\ [][NextFlex]_vars

\* the value of Series s at label l after outer alignment: missing without the label
Aligned(s, l) == IF l \in Range(s.index) THEN At(s, l) ELSE NaN

\* C5: with a fill_value, where exactly one operand is missing after alignment the
\* result is func(present value, fill_value) in the operand order; where both are
\* present it is func of the two original values
C5_FillOnOneSide ==
    (call.op = "flex" /\ call.val # NoneV) =>
        /\ call.st = "ok"
        /\ Range(call.ret.index) = Range(call.self.index) \cup Range(call.other.index)
        /\ Len(call.ret.values) = Len(call.ret.index)
        /\ \A i \in DOMAIN call.ret.index :
             LET l  == call.ret.index[i]
                 av == Aligned(call.self, l)
                 bv == Aligned(call.other, l)
             IN  /\ (isnull(av) /\ notnull(bv)) =>
                        call.ret.values[i] = arith(call.fn, call.val, bv)
                 /\ (notnull(av) /\ isnull(bv)) =>
                        call.ret.values[i] = arith(call.fn, av, call.val)
                 /\ (notnull(av) /\ notnull(bv)) =>
                        call.ret.values[i] = arith(call.fn, av, bv)

\* A = {x: 1, y: NaN}, B = {x: NaN, y: 2}, fill_value = 0: A.sub(B) = {x: 1, y: -2}
C5_Witness ==
    /\ call.op = "flex" /\ call.st = "ok" /\ call.fn = "sub" /\ call.val = 0
    /\ call.self.index = <<1, 2>> /\ call.self.values = <<1, NaN>>
    /\ call.other.index = <<1, 2>> /\ call.other.values = <<NaN, 2>>
    /\ call.ret.index = <<1, 2>>
    /\ call.ret.values = <<1, 0 - 2>>

\* C6: whatever the fill_value, a position missing in both operands after alignment
\* is missing in the result, and fill_value goes in on neither side of it
C6_BothMissingStaysMissing ==
    (call.op = "flex" /\ call.st = "ok") =>
        LET j == call.ret.index
            a == [i \in DOMAIN j |-> Aligned(call.self, j[i])]
            b == [i \in DOMAIN j |-> Aligned(call.other, j[i])]
            f == binop_filled(a, b, call.val)
        IN  \A i \in DOMAIN j :
                (isnull(a[i]) /\ isnull(b[i])) =>
                    /\ isnull(call.ret.values[i])
                    /\ isnull(f.this[i]) /\ isnull(f.other[i])

\* both operands hold a missing value at label 2 and fill_value is 0
C6_Witness ==
    /\ call.op = "flex" /\ call.st = "ok" /\ call.fn = "add" /\ call.val = 0
    /\ call.self.index = <<1, 2>> /\ call.self.values = <<1, NaN>>
    /\ call.other.index = <<2, 3>> /\ call.other.values = <<NaN, 2>>
    /\ call.ret.index = <<1, 2, 3>>
    /\ call.ret.values = <<1, NaN, 2>>

\* ----------------------------------------------- specification: reindex
InitReindex ==
    /\ \E a \in SeriesOver(Labels, SmallVals, {"x"}, "float64", MaxLen) :
          reg = [A |-> a, B |-> NoSeries]
    /\ call = NoCall

NextReindex == Reindex(SeqsUpTo(Labels, MaxLen), {NaN, 0})

SpecReindex == InitReindex /\ [][NextReindex]_vars

\* C7: reindex(new_labels) without a fill method returns exactly new_labels, the
\* source's value at every label the source has and a missing value, or the given
\* fill_value, at every label it lacks, also when the source is empty
C7_ReindexConforms ==
    (call.op = "reindex" /\ IsUnique(call.self.index)) =>
        /\ call.st = "ok"
        /\ call.ret.index = call.key
        /\ Len(call.ret.values) = Len(call.key)
        /\ \A i \in DOMAIN call.key :
             call.ret.values[i] =
                 IF call.key[i] \in Range(call.self.index)
                 THEN At(call.self, call.key[i])
                 ELSE call.val

\* C8: reindex to labels equal to the current ones returns the same object when
\* copy is disabled, and a distinct Series with equal labels, values and name when
\* copy is enabled
C8_ReindexEqualShortCircuits ==
    (call.op = "reindex" /\ call.key = call.self.index) =>
        /\ call.st = "ok"
        /\ call.ret.index = call.self.index
        /\ call.ret.values = call.self.values
        /\ call.ret.name = call.self.name
        /\ call.same = ~call.f1
        /\ call.same => call.ret = reg.A

\* a Series with two labels, one value missing, reindexed to its own labels
\* without a copy
C8_Witness ==
    /\ call.op = "reindex" /\ call.st = "ok" /\ ~call.f1 /\ call.same
    /\ call.key = <<3, 1>> /\ call.self.index = <<3, 1>>
    /\ call.self.values = <<NaN, 1>>
    /\ call.ret = call.self

\* ------------------------------ specification: order() then sort_index()
InitRoundTrip ==
    /\ \E a \in UniqueFloatSeries(MaxLen + 1, {"x"}) : reg = [A |-> a, B |-> NoSeries]
    /\ call = NoCall

\* y = A.order(...).sort_index(ascending): sort_index called on the Series the
\* order() call before it returned
SortIndexOfOrder ==
    /\ call.op = "order" /\ call.st = "ok"
    /\ \E ascending \in BOOLEAN :
          call' = MkCall("sort_index", "A.order()", call.ret, NoSeries, "", NoneV, <<>>,
                         ascending, FALSE, sort_index(call.ret, ascending))
    /\ UNCHANGED reg

NextRoundTrip == Order \/ SortIndexOfOrder

SpecRoundTrip == InitRoundTrip /\ [][NextRoundTrip]_vars

\* the labels of a sequence are in increasing order
IsSorted(index) == \A i, j \in DOMAIN index : i < j => index[i] < index[j]

\* C11: for a Series A with unique labels in sorted order, A.order().sort_index()
\* has A's labels in A's order and A's value at every label
C11_OrderSortIndexRoundTrip ==
    (/\ call.op = "sort_index" /\ call.recv = "A.order()" /\ call.f1
     /\ IsUnique(reg.A.index) /\ IsSorted(reg.A.index)) =>
        /\ call.st = "ok"
        /\ call.ret.index = reg.A.index
        /\ call.ret.values = reg.A.values

\* A = {1: 2, 2: NaN, 3: 1}: order() gives the labels 3, 1, 2 and sort_index()
\* brings back 1, 2, 3 with their values
C11_Witness ==
    /\ call.op = "sort_index" /\ call.recv = "A.order()" /\ call.f1 /\ call.st = "ok"
    /\ reg.A.index = <<1, 2, 3>> /\ reg.A.values = <<2, NaN, 1>>
    /\ call.self.index = <<3, 1, 2>> /\ call.self.values = <<1, 2, NaN>>
    /\ call.ret.index = <<1, 2, 3>> /\ call.ret.values = <<2, NaN, 1>>

\* ------------------------------ specification: combine and combine_first
\* the values of the second operand, none of them a value of the first
OtherVals == {NaN, 3}

InitCombine ==
    /\ \E a \in UniqueFloatSeries(MaxLen, {"x"})
                  \cup Unique(SeriesOver(SmallLabels, {1}, {"x"}, "int64", MaxLen)),
          b \in Unique(SeriesOver(Labels, OtherVals, {"x"}, "float64", MaxLen)) :
          reg = [A |-> a, B |-> b]
    /\ call = NoCall

NextCombine == Combine \/ CombineFirst

SpecCombine == InitCombine /\ [][NextCombine]_vars

\* C12: A.combine_first(B) has the union of the labels; at a label where A has a
\* non-missing value it has A's value, at every other label of the union B's value
\* for the label, missing when B lacks the label or is missing there
C12_CombineFirst ==
    (/\ call.op = "combine_first"
     /\ IsUnique(call.self.index) /\ IsUnique(call.other.index)) =>
        /\ call.st = "ok"
        /\ Len(call.ret.values) = Len(call.ret.index)
        /\ IsUnique(call.ret.index)
        /\ Range(call.ret.index) = Range(call.self.index) \cup Range(call.other.index)
        /\ \A i \in DOMAIN call.ret.index :
             LET l  == call.ret.index[i]
                 av == Aligned(call.self, l)
                 bv == Aligned(call.other, l)
             IN  call.ret.values[i] = IF notnull(av) THEN av ELSE bv

\* A = {2: NaN, 3: 1}, B = {1: 3, 2: 3}: the result is {1: 3, 2: 3, 3: 1}
C12_Witness ==
    /\ call.op = "combine_first" /\ call.st = "ok"
    /\ call.self.index = <<2, 3>> /\ call.self.values = <<NaN, 1>>
    /\ call.other.index = <<1, 2>> /\ call.other.values = <<3, 3>>
    /\ call.ret.index = <<1, 2, 3>> /\ call.ret.values = <<3, 3, 1>>

\* the value combine's func gets for Series s at label l: the value at the label,
\* fill_value without the label
ValueOrFill(s, l, fill_value) == IF l \in Range(s.index) THEN At(s, l) ELSE fill_value

\* C14: combine(other, func, fill_value) returns a Series over the union of the
\* labels whose value at each label is func(caller's value or fill_value, other's
\* value or fill_value)
C14_CombinePerLabel ==
    (/\ call.op = "combine"
     /\ IsUnique(call.self.index) /\ IsUnique(call.other.index)) =>
        /\ call.st = "ok"
        /\ Len(call.ret.values) = Len(call.ret.index)
        /\ IsUnique(call.ret.index)
        /\ Range(call.ret.index) = Range(call.self.index) \cup Range(call.other.index)
        /\ \A i \in DOMAIN call.ret.index :
             LET l == call.ret.index[i]
             IN  call.ret.values[i] =
                     arith(call.fn, ValueOrFill(call.self, l, call.val),
                                    ValueOrFill(call.other, l, call.val))

\* ------------------------------------------------ specification: update
InitUpdate ==
    /\ \E a \in FloatSeries(MaxLen, {"x"})
                  \cup SeriesOver(SmallLabels, {1, 2}, {"x"}, "int64", MaxLen),
          b \in Unique(SeriesOver(Labels, OtherVals \cup {Frac}, {"y"}, "float64", MaxLen)) :
          reg = [A |-> a, B |-> b]
    /\ call = NoCall

NextUpdate == Update

SpecUpdate == InitUpdate /\ [][NextUpdate]_vars

\* the value of a Series with unique labels at label l, missing without the label
\* (the Series reindexed to a label)
ReindexedAt(s, l) == IF l \in Range(s.index) THEN At(s, l) ELSE NaN

\* C13: update(other) changes the caller in place and only where other, reindexed
\* to the caller's labels, is non-missing: there the value becomes other's value;
\* every other value, the labels, the length and the name stay
C13_UpdateFrame ==
    (call.op = "update" /\ IsUnique(call.other.index)) =>
        /\ call.st = "ok" /\ call.same
        /\ reg.A.index = call.self.index
        /\ reg.A.name = call.self.name
        /\ Len(reg.A.values) = Len(call.self.values)
        /\ \A i \in DOMAIN call.self.values :
             LET bv == ReindexedAt(call.other, call.self.index[i])
             IN  reg.A.values[i] = IF notnull(bv) THEN bv ELSE call.self.values[i]

\* ------------------------------------------------ specification: fillna
InitFillna ==
    /\ \E a \in UniqueFloatSeries(MaxLen + 1, {"x"})
                  \cup Unique(SeriesOver(SmallLabels, {1}, {"x"}, "int64", MaxLen)) :
          reg = [A |-> a, B |-> NoSeries]
    /\ call = NoCall

\* y = A.fillna(method=m, limit=n).fillna(method=m, limit=n): the method fill
\* repeated on the Series the fillna call before it returned
FillnaOfFillna ==
    /\ call.op = "fillna" /\ call.recv = "A" /\ call.st = "ok" /\ call.val = NoneV
    /\ call' = MkCall("fillna", "A.fillna()", call.ret, NoSeries, call.fn, NoneV,
                      call.key, FALSE, FALSE,
                      fillna(call.ret, NoneV, call.fn, call.key[1], FALSE))
    /\ UNCHANGED reg

NextFillna == Fillna({NoneV, NaN, 0}) \/ FillnaOfFillna

SpecFillna == InitFillna /\ [][NextFillna]_vars

\* C15: fillna with a fill value replaces the value at every missing position by
\* that value and changes nothing else, and the result has no missing value left
C15_FillnaValue ==
    (call.op = "fillna" /\ call.recv = "A" /\ call.val # NoneV) =>
        /\ call.st = "ok"
        /\ call.ret.index = call.self.index
        /\ call.ret.name = call.self.name
        /\ Len(call.ret.values) = Len(call.self.values)
        /\ \A i \in DOMAIN call.self.values :
             call.ret.values[i] = IF isnull(call.self.values[i]) THEN call.val
                                  ELSE call.self.values[i]
        /\ \A i \in DOMAIN call.ret.values : notnull(call.ret.values[i])

\* C15, amended: fillna with a fill value replaces the value at every missing
\* position by that value and changes nothing else; when the fill value is not
\* itself the missing value, the result has no missing value left
C15_FillnaValueNotMissing ==
    (call.op = "fillna" /\ call.recv = "A" /\ call.val # NoneV) =>
        /\ call.st = "ok"
        /\ call.ret.index = call.self.index
        /\ call.ret.name = call.self.name
        /\ Len(call.ret.values) = Len(call.self.values)
        /\ \A i \in DOMAIN call.self.values :
             call.ret.values[i] = IF isnull(call.self.values[i]) THEN call.val
                                  ELSE call.self.values[i]
        /\ notnull(call.val) => \A i \in DOMAIN call.ret.values : notnull(call.ret.values[i])

\* [NaN, 1, NaN].fillna(0) is [0, 1, 0]
C15_Witness ==
    /\ call.op = "fillna" /\ call.recv = "A" /\ call.val = 0 /\ call.st = "ok"
    /\ call.self.values = <<NaN, 1, NaN>>
    /\ call.ret.values = <<0, 1, 0>>
    /\ call.ret.index = call.self.index

\* C16: forward fill is idempotent: A.fillna(method='pad').fillna(method='pad') has
\* the labels and values of A.fillna(method='pad')
C16_PadIdempotent ==
    (/\ call.op = "fillna" /\ call.recv = "A.fillna()"
     /\ call.fn = "pad" /\ call.key = <<NoneV>>) =>
        /\ call.st = "ok"
        /\ call.ret.index = call.self.index
        /\ call.ret.values = call.self.values

\* A = [NaN, 1, NaN, ...]: one pad gives [NaN, 1, 1], the second one the same
C16_Witness ==
    /\ call.op = "fillna" /\ call.recv = "A.fillna()" /\ call.st = "ok"
    /\ call.fn = "pad" /\ call.key = <<NoneV>>
    /\ reg.A.values = <<1, NaN, NaN>>
    /\ call.self.values = <<1, 1, 1>>
    /\ call.ret.values = <<1, 1, 1>>

\* ------------------------------------------------- specification: shift
InitShift ==
    /\ \E a \in UniqueFloatSeries(MaxLen + 1, {"x"})
                  \cup Unique(SeriesOver(SmallLabels, {1, 2}, {"x"}, "int64", MaxLen)) :
          reg = [A |-> a, B |-> NoSeries]
    /\ call = NoCall

NextShift == Shift((0 - (MaxLen + 2))..(MaxLen + 2))

SpecShift == InitShift /\ [][NextShift]_vars

\* C17: shift(k), for every integer k, returns the source's labels and length with
\* the source's value of position i - k at position i, missing where the source has
\* no position i - k; shift(0) returns a copy equal to the source
C17_Shift ==
    call.op = "shift" =>
        LET n == Len(call.self.values)
            k == call.val
        IN  /\ call.st = "ok"
            /\ call.ret.index = call.self.index
            /\ Len(call.ret.values) = n
            /\ \A i \in 1..n :
                 call.ret.values[i] = IF 1 <= i - k /\ i - k <= n
                                      THEN call.self.values[i - k] ELSE NaN
            /\ k = 0 => (call.ret = call.self /\ ~call.same)

\* [1, NaN, 2].shift(-1) is [NaN, 2, NaN]
C17_Witness ==
    /\ call.op = "shift" /\ call.st = "ok" /\ call.val = 0 - 1
    /\ call.self.values = <<1, NaN, 2>>
    /\ call.ret.values = <<NaN, 2, NaN>>
    /\ call.ret.index = call.self.index

\* ---------------------------------------- specification: bracket assignment
InitSetItem ==
    /\ \E a \in SeriesOver(SmallLabels \cup StrLabels, SmallVals, {"x"}, "float64", MaxLen) :
          reg = [A |-> a, B |-> NoSeries]
    /\ call = NoCall

NextSetItem == SetItem((0 - 1)..3 \cup StrLabels) \/ SetLabels(SeqsUpTo(SmallLabels, 2))

SpecSetItem == InitSetItem /\ [][NextSetItem]_vars

Align ==
    \E cp \in BOOLEAN :
        LET al == align(reg.A, reg.B, cp)
        IN  /\ call' = [MkCall("align", "A", reg.A, reg.B, "outer", NoneV, <<>>,
                               cp, FALSE, al.left) EXCEPT !.ret2 = al.right.s]
            /\ UNCHANGED reg

InitAlign ==
    /\ \E a \in UniqueFloatSeries(MaxLen, {"x"}) \cup UniqueIntSeries(MaxLen, {"x"}),
          b \in UniqueFloatSeries(MaxLen, {"y"}) \cup UniqueIntSeries(MaxLen, {"y"}) :
          reg = [A |-> a, B |-> b]
    /\ call = NoCall

NextAlign == Align

SpecAlign == InitAlign /\ [][NextAlign]_vars

\* C18: for A and B with disjoint label sets, A.align(B, join='outer') returns two
\* Series that carry the union of the labels, each label once, in the same order;
\* the first has A's value at A's labels and is missing at B's labels, the second
\* has B's value at B's labels and is missing at A's labels
C18_AlignDisjoint ==
    (call.op = "align"
        /\ Range(call.self.index) \cap Range(call.other.index) = {}) =>
        /\ call.st = "ok"
        /\ call.ret.index = call.ret2.index
        /\ IsUnique(call.ret.index)
        /\ Range(call.ret.index) = Range(call.self.index) \cup Range(call.other.index)
        /\ Len(call.ret.values) = Len(call.ret.index)
        /\ Len(call.ret2.values) = Len(call.ret.index)
        /\ \A i \in DOMAIN call.ret.index :
             LET l == call.ret.index[i]
             IN  /\ call.ret.values[i] = Aligned(call.self, l)
                 /\ call.ret2.values[i] = Aligned(call.other, l)
                 /\ l \in Range(call.other.index) => isnull(call.ret.values[i])
                 /\ l \in Range(call.self.index) => isnull(call.ret2.values[i])

\* an integer Series over label 3 aligned with a Series over labels 1 and 2: three
\* labels on both sides, each side missing where the other has its labels
C18_Witness ==
    /\ call.op = "align" /\ call.st = "ok"
    /\ call.self.index = <<3>> /\ call.self.values = <<2>>
    /\ call.self.dtype = "int64"
    /\ call.other.index = <<2, 1>> /\ call.other.values = <<1, 2>>
    /\ call.ret.index = <<1, 2, 3>> /\ call.ret.values = <<NaN, NaN, 2>>
    /\ call.ret2.index = <<1, 2, 3>> /\ call.ret2.values = <<2, 1, NaN>>

\* ----------------------------------------------- specification: set_value alone
InitSetValue ==
    /\ \E a \in UniqueFloatSeries(MaxLen, {"x"}) \cup UniqueIntSeries(MaxLen, {"x"}) :
          reg = [A |-> a, B |-> a]
    /\ call = NoCall

NextSetValue == SetValue({NaN, 1, Frac})

SpecSetValue == InitSetValue /\ [][NextSetValue]_vars

Get ==
    \E label \in (0 - 1)..3 \cup StrLabels, default \in {NoneV, NaN, 0} :
        LET v == get(reg.A, label, default)
        IN  /\ call' = MkCall("get", "A", reg.A, NoSeries, "", default, <<label>>,
                              FALSE, FALSE,
                              [st |-> IF v = Absent THEN "raise" ELSE "ok",
                               s |-> v, same |-> FALSE])
            /\ UNCHANGED reg

InitGet ==
    /\ \E a \in Unique(SeriesOver(SmallLabels \cup StrLabels, Vals, {"x"},
                                   "float64", MaxLen)) :
          reg = [A |-> a, B |-> a]
    /\ call = NoCall

NextGet == Get

SpecGet == InitGet /\ [][NextGet]_vars

\* C22: get(label, default) never raises for an absent label: it returns the value
\* stored at label when label is a label of the Series and default (None when not
\* supplied) when it is not, and leaves the Series unchanged
C22_GetNeverRaises ==
    call.op = "get" =>
        /\ call.st = "ok"
        /\ reg.A = call.self
        /\ IF call.key[1] \in Range(call.self.index)
           THEN \E i \in DOMAIN call.self.index :
                    /\ call.self.index[i] = call.key[1]
                    /\ call.ret = call.self.values[i]
           ELSE call.ret = call.val

\* get(0) on a Series labelled 'a', 1: 0 is not a label, None comes back
C22_Witness ==
    /\ call.op = "get" /\ call.st = "ok"
    /\ call.self.index = <<101, 1>> /\ call.self.values = <<1, 2>>
    /\ call.key = <<0>> /\ call.val = NoneV
    /\ call.ret = NoneV
    /\ reg.A = call.self

\* -------------------------- specification: in-place operations that can fail
\* the arrays of booleans given to where as cond for a Series of n values: every
\* one of length n and one that is too long
Conds(n) == [1..n -> BOOLEAN] \cup {[i \in 1..(n + 1) |-> TRUE]}

\* A.where(cond, other, inplace) with a list of replacements
Where ==
    \E cond \in Conds(Len(reg.A.values)), other \in SeqsUpTo({1}, MaxLen),
       inplace \in BOOLEAN :
        LET r == where(reg.A, cond, other, inplace)
        IN  /\ call' = MkCall("where", "A", reg.A, NoSeries, "list", NoneV, other,
                              inplace, FALSE, r)
            /\ reg' = InPlace(r)

\* A.where(cond, other, inplace) with a scalar as other, nan by default
WhereScalar ==
    \E cond \in Conds(Len(reg.A.values)), other \in {NaN, 0}, inplace \in BOOLEAN :
        LET r == where_scalar(reg.A, cond, other, inplace)
        IN  /\ call' = MkCall("where", "A", reg.A, NoSeries, "scalar", other, cond,
                              inplace, FALSE, r)
            /\ reg' = InPlace(r)

InitNoPartial ==
    /\ \E a \in UniqueFloatSeries(MaxLen, {"x"}) : reg = [A |-> a, B |-> NoSeries]
    /\ call = NoCall

NextNoPartial == SetLabels(SeqsUpTo(Labels, 2)) \/ Sort({0, 1}) \/ Where \/ WhereScalar \/ Replace(ReplaceLists)

SpecNoPartial == InitNoPartial /\ [][NextNoPartial]_vars

\* C23: whenever an in-place operation raises (bracket assignment with a list of
\* labels of which one is absent, sort on a view of another array, where in place
\* with replacements of the wrong length, replace in place with lists of different
\* lengths), the values and labels of the Series are those it had before the call
C23_NoPartialWrite ==
    (call.op \in {"set_labels", "sort", "where", "replace"} /\ call.st = "raise") =>
        /\ reg.A.values = call.self.values
        /\ reg.A.index = call.self.index

\* A[[1, 3]] = v on a Series labelled 1, 2: label 3 is absent, the call raises and
\* the value at label 1 is the one from before
C23_Witness ==
    /\ call.op = "set_labels" /\ call.st = "raise"
    /\ call.key = <<1, 3>> /\ call.self.index = <<1, 2>>
    /\ call.self.values = <<NaN, 1>> /\ call.val = 1
    /\ reg.A.values = <<NaN, 1>>

\* ------------------------------- specification: two Series that share an index
\* In the specifications from here on reg has a third field, alias, that says what
\* the object bound to B has in common with the object bound to A: same (they are
\* one object), index (they hold one Index object), values (they hold one buffer)
NoAlias == [same |-> FALSE, index |-> FALSE, values |-> FALSE]

\* what a copy that does not copy the values has in common with its source
copy_shares_view == [same |-> FALSE, index |-> TRUE, values |-> TRUE]

\* what the result of Series.copy has in common with self: the index object, and not
\* the buffer (self.values.copy())
copy_shares == [same |-> FALSE, index |-> TRUE, values |-> FALSE]

\* what the result of an operator has in common with self: Series(na_op(...),
\* index=self.index)
arith_shares == [same |-> FALSE, index |-> TRUE, values |-> FALSE]

\* the registers after B's object had s written into it in place: the write shows
\* in A when the two are one object or hold one buffer
WriteB(s) ==
    [reg EXCEPT !.B = s,
                !.A = IF reg.alias.same THEN s
                      ELSE IF reg.alias.values
                      THEN MkSeries(s.values, reg.A.index, reg.A.name, s.dtype)
                      ELSE reg.A]

\* the registers after 'self.index = index' on B's object (lib.SeriesIndex.__set__
\* binds the attribute to another Index object) together with a write of values
SetIndexB(s) ==
    [WriteB(MkSeries(s.values, reg.B.index, reg.B.name, s.dtype))
        EXCEPT !.B = s,
               !.A = IF reg.alias.same THEN s ELSE @,
               !.alias = IF reg.alias.same THEN reg.alias
                         ELSE [reg.alias EXCEPT !.index = FALSE]]

\* the mappers given to rename: functions of the label that stay within -3..3
rename_function(mapper, x) == IF mapper = "next" THEN (x % 3) + 1 ELSE 0 - x

\* Series.rename(mapper, inplace)
rename(self, mapper, inplace) ==
    LET index == [i \in DOMAIN self.index |-> rename_function(mapper, self.index[i])]
        s     == MkSeries(self.values, index, self.name, self.dtype)
    IN  IF inplace THEN OkSelf(s) ELSE Ok(s)

\* Series.reset_index(drop=True, name=None, inplace): the labels become 0..N-1
reset_index(self, inplace) ==
    LET new_index == [i \in DOMAIN self.index |-> i - 1]
        s         == MkSeries(self.values, new_index, self.name, self.dtype)
    IN  IF inplace THEN OkSelf(s) ELSE Ok(s)

\* B = A.copy()
CopyToB ==
    /\ call' = MkCall("copy", "A", reg.A, NoSeries, "", NoneV, <<>>, FALSE, FALSE,
                      Ok(copy(reg.A)))
    /\ reg' = [reg EXCEPT !.B = copy(reg.A), !.alias = copy_shares]

\* B = A + v
ArithToB ==
    \E v \in {1} :
        LET r == arith_method_scalar("add", reg.A, v)
        IN  /\ call' = MkCall("add", "A", reg.A, NoSeries, "", v, <<>>, FALSE, FALSE, r)
            /\ reg' = [reg EXCEPT !.B = r.s, !.alias = arith_shares]

\* B.sort(): the call record keeps A as it was before the call as other and whether
\* the two shared their index as f2
SortB ==
    LET r == sort(reg.B, Len(reg.B.values))
    IN  /\ call' = MkCall("sort", "B", reg.B, reg.A, "", NoneV, <<>>,
                          FALSE, reg.alias.index, r)
        /\ reg' = IF r.same THEN SetIndexB(r.s) ELSE reg

\* B.rename(mapper, inplace=True)
RenameB ==
    \E mapper \in {"next", "neg"} :
        LET r == rename(reg.B, mapper, TRUE)
        IN  /\ call' = MkCall("rename", "B", reg.B, reg.A, mapper, NoneV, <<>>,
                              TRUE, reg.alias.index, r)
            /\ reg' = IF r.same THEN SetIndexB(r.s) ELSE reg

\* B.reset_index(drop=True, inplace=True)
ResetIndexB ==
    LET r == reset_index(reg.B, TRUE)
    IN  /\ call' = MkCall("reset_index", "B", reg.B, reg.A, "", NoneV, <<>>,
                          TRUE, reg.alias.index, r)
        /\ reg' = IF r.same THEN SetIndexB(r.s) ELSE reg

InitSharedIndex ==
    /\ \E a \in UniqueFloatSeries(MaxLen, {"x"}) :
          reg = [A |-> a, B |-> copy(a), alias |-> copy_shares]
    /\ call = NoCall

NextSharedIndex == CopyToB \/ ArithToB \/ SortB \/ RenameB \/ ResetIndexB

SpecSharedIndex == InitSharedIndex /\ [][NextSharedIndex]_vars

\* C24: when A and B share one index object (B = A.copy(), or B is the result of
\* an operator that reuses A's index), an in-place operation that changes B's
\* labels (sort, rename(inplace=True), reset_index(drop=True, inplace=True)) leaves
\* A's labels and the pairing of A's labels with A's values unchanged
C24_SharedIndexFrame ==
    (call.recv = "B" /\ call.op \in {"sort", "rename", "reset_index"} /\ call.f2) =>
        /\ reg.A.index = call.other.index
        /\ reg.A.values = call.other.values

\* B = A.copy() of a Series 2, 1 over the labels 1, 2 was sorted in place: B is
\* 1, 2 over 2, 1 and A is as it was
C24_Witness ==
    /\ call.recv = "B" /\ call.op = "sort" /\ call.f2 /\ call.st = "ok"
    /\ call.other.index = <<1, 2>> /\ call.other.values = <<2, 1>>
    /\ call.self.index = <<1, 2>> /\ call.self.values = <<2, 1>>
    /\ reg.B.index = <<2, 1>> /\ reg.B.values = <<1, 2>>
    /\ reg.A.index = <<1, 2>> /\ reg.A.values = <<2, 1>>
    /\ ~reg.alias.index

\* --------------------- specification: mutation of the result of a transformation
\* what a result has in common with self: everything when it is self, nothing when
\* it is a new Series over a new buffer
result_shares(r) ==
    IF r.same THEN [same |-> TRUE, index |-> TRUE, values |-> TRUE] ELSE NoAlias

\* what Series(values, index=new_index, copy=cp) has in common with the Series whose
\* buffer values is: the buffer, unless it is copied
view_shares(cp) == [same |-> FALSE, index |-> FALSE, values |-> ~cp]

\* Series.shift(periods, freq=offset, copy=cp) on labels that are points in time in
\* units of the offset: the values as they are (copied when cp), the labels moved
shift_offset(self, periods, cp) ==
    IF periods = 0 THEN Ok(copy(self))
    ELSE SeriesNew(self.values, [i \in DOMAIN self.index |-> self.index[i] + periods],
                   self.name, self.dtype)

\* the labels of two levels: the pair (a, b) is written 10 a + b
PairLabels == {11, 12, 21}

\* MultiIndex.swaplevel(0, 1) on labels of two levels
index_swaplevel(index) ==
    [i \in DOMAIN index |-> 10 * (index[i] % 10) + (index[i] \div 10)]

\* Series.swaplevel(i, j, copy=cp)
swaplevel(self, cp) ==
    SeriesNew(self.values, index_swaplevel(self.index), self.name, self.dtype)

\* B = A.reindex(index, copy=cp), with A's own labels or other labels as index
ReindexToB ==
    \E index \in {reg.A.index, <<1>>, <<2, 1>>}, cp \in BOOLEAN :
        LET r == reindex(reg.A, index, NaN, cp)
        IN  /\ r.st = "ok"
            /\ call' = MkCall("reindex", "A", reg.A, NoSeries, "", NaN, index, cp,
                              FALSE, r)
            /\ reg' = [reg EXCEPT !.B = r.s, !.alias = result_shares(r)]

\* B, _ = A.align(other, join='outer', copy=cp), other over A's labels or over label 3
AlignToB ==
    \E other \in {reg.A, MkSeries(<<1>>, <<3>>, "y", "float64")}, cp \in BOOLEAN :
        LET al == align(reg.A, other, cp)
        IN  /\ al.left.st = "ok"
            /\ call' = [MkCall("align", "A", reg.A, other, "outer", NoneV, <<>>, cp,
                               FALSE, al.left) EXCEPT !.ret2 = al.right.s]
            /\ reg' = [reg EXCEPT !.B = al.left.s, !.alias = result_shares(al.left)]

\* B = A.shift(1, freq=offset, copy=cp)
ShiftOffsetToB ==
    \E cp \in BOOLEAN :
        LET r == shift_offset(reg.A, 1, cp)
        IN  /\ \A i \in DOMAIN reg.A.index : reg.A.index[i] \notin PairLabels
            /\ call' = MkCall("shift", "A", reg.A, NoSeries, "offset", NoneV, <<1>>, cp,
                              FALSE, r)
            /\ reg' = [reg EXCEPT !.B = r.s, !.alias = view_shares(cp)]

\* B = A.swaplevel(0, 1, copy=cp), for an A with labels of two levels
SwapLevelToB ==
    \E cp \in BOOLEAN :
        LET r == swaplevel(reg.A, cp)
        IN  /\ Len(reg.A.index) > 0
            /\ \A i \in DOMAIN reg.A.index : reg.A.index[i] \in PairLabels
            /\ call' = MkCall("swaplevel", "A", reg.A, NoSeries, "", NoneV, <<>>, cp,
                              FALSE, r)
            /\ reg' = [reg EXCEPT !.B = r.s, !.alias = view_shares(cp)]

\* B[label] = v: the call record keeps A as it was before the call as other and
\* whether B was made without a copy as f2
SetItemB ==
    \E i \in DOMAIN reg.B.index, v \in {0} :
        LET r == setitem(reg.B, reg.B.index[i], v)
        IN  /\ call' = MkCall("setitem", "B", reg.B, reg.A, "", v, <<reg.B.index[i]>>,
                              FALSE, reg.alias.values, r)
            /\ reg' = IF r.same THEN WriteB(r.s) ELSE reg

\* B.fillna(0, inplace=True)
FillnaB ==
    LET r == fillna(reg.B, 0, "", NoneV, TRUE)
    IN  /\ call' = MkCall("fillna", "B", reg.B, reg.A, "", 0, <<>>,
                          TRUE, reg.alias.values, r)
        /\ reg' = IF r.same THEN WriteB(r.s) ELSE reg

InitNoCopy ==
    /\ \E a \in Unique(SeriesOver(SmallLabels, SmallVals, {"x"}, "float64", MaxLen))
                \cup Unique(SeriesOver(PairLabels, SmallVals, {"x"}, "float64", MaxLen)) :
          reg = [A |-> a, B |-> copy(a), alias |-> copy_shares]
    /\ call = NoCall

NextNoCopy ==
    ReindexToB \/ AlignToB \/ ShiftOffsetToB \/ SwapLevelToB \/ SetItemB \/ FillnaB

SpecNoCopy == InitNoCopy /\ [][NextNoCopy]_vars

\* C25: for every transformation that returns a Series, also when copying is
\* disabled (reindex(copy=False), align(copy=False), swaplevel(copy=False), shift
\* with an offset and copy=False), a later in-place mutation of the values of the
\* returned Series (bracket assignment, fillna in place) never changes the values
\* of the source Series
C25_NoCopyNeverAliases ==
    (call.recv = "B" /\ call.op \in {"setitem", "fillna"}) =>
        reg.A.values = call.other.values

\* ------------------------------ specification: the operations that are not in place
\* y = A.__iadd__(B), A.__isub__(B), A.__imul__(B): the methods behind A += B,
\* A -= B, A *= B, which are the methods of +, -, *
IArith ==
    /\ \E op \in ArithOps :
          call' = MkCall("iarith", "A", reg.A, reg.B, op, NoneV, <<>>, FALSE, FALSE,
                         arith_method(op, reg.A, reg.B))
    /\ reg' = AfterCall(call')

InitPure ==
    /\ \E a \in Unique(SeriesOver(Labels, SmallVals, {"x"}, "float64", MaxLen)),
          b \in {MkSeries(<<>>, <<>>, "y", "float64"), MkSeries(<<1>>, <<2>>, "y", "float64")} :
          reg = [A |-> a, B |-> b]
    /\ call = NoCall

NextPure ==
    \/ Order \/ SortIndex \/ Reindex({<<>>, <<1>>, <<2, 1>>}, {NaN}) \/ Shift({0 - 1, 0, 1})
    \/ DropNa \/ Combine \/ CombineFirst \/ Arith \/ Comp \/ Bool \/ IArith
    \/ Fillna({NoneV, 0}) \/ Replace(ReplaceLists) \/ WhereScalar

SpecPure == InitPure /\ [][NextPure]_vars

\* C26: every operation other than the explicitly in-place ones leaves its
\* receiver and its Series argument unchanged in values, labels and name: order,
\* sort_index, reindex, shift, dropna, combine, combine_first, the arithmetic,
\* comparison and boolean operators, the augmented forms of the arithmetic
\* operators, and fillna, replace and where called with inplace=False
C26_PureOpsFrame ==
    (\/ call.op \in {"order", "sort_index", "reindex", "shift", "dropna", "combine",
                     "combine_first", "arith", "comp", "bool", "iarith"}
     \/ (call.op \in {"fillna", "replace", "where"} /\ ~call.f1)) =>
        /\ reg.A = call.self
        /\ call.other # NoSeries => reg.B = call.other

\* fillna(0) with inplace=False on the Series nan, 1: the result is 0, 1 and the
\* receiver still holds nan
C26_Witness ==
    /\ call.op = "fillna" /\ ~call.f1 /\ call.val = 0 /\ call.st = "ok"
    /\ call.self.values = <<NaN, 1>>
    /\ call.ret.values = <<0, 1>>
    /\ reg.A.values = <<NaN, 1>>

\* --------------------------- specification: Series that cannot hold a missing value
\* y = A._can_hold_na: the boolean is recorded as ret of the call
CanHoldNa ==
    /\ call' = MkCall("can_hold_na", "A", reg.A, NoSeries, "", NoneV, <<>>, FALSE, FALSE,
                      [st |-> "ok", s |-> can_hold_na(reg.A), same |-> FALSE])
    /\ UNCHANGED reg

InitHoldNa ==
    /\ \E a \in UniqueIntSeries(MaxLen, {"x"})
                \cup Unique(SeriesOver(SmallLabels, SmallVals, {"x"}, "float64", MaxLen))
                \cup Unique(SeriesOver(SmallLabels, {0, 1}, {"x"}, "bool", MaxLen)) :
          reg = [A |-> a, B |-> NoSeries]
    /\ call = NoCall

NextHoldNa == CanHoldNa \/ Fillna({NoneV, NaN, 0})

SpecHoldNa == InitHoldNa /\ [][NextHoldNa]_vars

\* C27: a Series reports that it can hold missing values exactly when its element
\* kind is not integer; fillna on an integer-kind Series, by value or by method, in
\* place or not, leaves every value as it was
C27_CanHoldNa ==
    /\ call.op = "can_hold_na" => (call.ret <=> call.self.dtype # "int64")
    /\ (call.op = "fillna" /\ call.self.dtype = "int64") =>
          /\ call.st = "ok"
          /\ call.ret.values = call.self.values
          /\ call.ret.index = call.self.index
          /\ reg.A.values = call.self.values
          /\ call.f1 <=> call.same

\* fillna(0, inplace=True) on the integer Series 2, 1: the Series itself comes back
\* and holds 2, 1
C27_Witness ==
    /\ call.op = "fillna" /\ call.self.dtype = "int64" /\ call.f1 /\ call.val = 0
    /\ call.self.values = <<2, 1>>
    /\ call.st = "ok" /\ call.same
    /\ reg.A.values = <<2, 1>>

\* ----------------- specification: missing values in results of integer Series
InitIntMissing ==
    /\ \E a \in UniqueIntSeries(MaxLen, {"x"}),
          b \in {MkSeries(<<1>>, <<1>>, "x", "int64"),
                 MkSeries(<<1, 1>>, <<3, 2>>, "x", "int64")} :
          reg = [A |-> a, B |-> b]
    /\ call = NoCall

NextIntMissing ==
    \/ Shift({0 - 1, 0, 1, MaxLen + 1}) \/ Reindex({<<>>, <<1>>, <<3, 1>>}, {NaN})
    \/ Arith \/ Flex \/ WhereScalar

SpecIntMissing == InitIntMissing /\ [][NextIntMissing]_vars

\* the positions of the result of the last call that have to be missing: the
\* positions shift vacates, the labels the source of reindex lacks, the labels that
\* one of the two operands lacks, the positions where cond is false
ShouldBeMissing ==
    IF call.op = "shift"
    THEN {i \in DOMAIN call.self.values :
             \/ call.val > 0 /\ i <= call.val
             \/ call.val < 0 /\ i > Len(call.self.values) + call.val}
    ELSE IF call.op = "reindex"
    THEN {i \in DOMAIN call.key : call.key[i] \notin Range(call.self.index)}
    ELSE IF call.op = "arith" \/ (call.op = "flex" /\ call.val = NoneV)
    THEN {i \in DOMAIN call.ret.index :
             \/ call.ret.index[i] \notin Range(call.self.index)
             \/ call.ret.index[i] \notin Range(call.other.index)}
    ELSE IF call.op = "where" /\ call.val = NaN /\ Len(call.key) = Len(call.self.values)
    THEN {i \in DOMAIN call.key : ~call.key[i]}
    ELSE {}

\* C28: an operation that has to put a missing value into the result of an
\* integer-kind Series (shift without an offset, reindex to labels the source
\* lacks, alignment of operands with different labels, where with the default
\* replacement) either raises or returns a result of a kind that can hold missing
\* values, missing at those positions; it never returns an integer-kind result
C28_IntMissingUpcastOrRaise ==
    (call.op \in {"shift", "reindex", "arith", "flex", "where"}
        /\ call.self.dtype = "int64" /\ call.st = "ok"
        /\ ShouldBeMissing # {}) =>
        /\ call.ret.dtype # "int64"
        /\ \A i \in ShouldBeMissing : isnull(call.ret.values[i])

\* the integer Series 1, 2 shifted by one: a float Series nan, 1
C28_Witness ==
    /\ call.op = "shift" /\ call.val = 1 /\ call.st = "ok"
    /\ call.self.dtype = "int64" /\ call.self.values = <<1, 2>>
    /\ call.ret.dtype = "float64" /\ call.ret.values = <<NaN, 1>>

\* ---------------------------- specification: subscripts that are lists of integers
\* y = A[key] with a list as key
GetWith(keys) ==
    \E key \in keys :
        /\ Len(key) > 0
        /\ call' = MkCall("get_with", "A", reg.A, NoSeries, "", NoneV, key, FALSE, FALSE,
                          get_with(reg.A, key))
        /\ reg' = AfterCall(call')

InitSubscript ==
    /\ \E a \in Unique(SeriesOver(SmallLabels \cup StrLabels, SmallVals, {"x"},
                                   "float64", MaxLen)) :
          reg = [A |-> a, B |-> NoSeries]
    /\ call = NoCall

NextSubscript ==
    GetWith(SeqsUpTo((0 - 1)..2, 2)) \/ SetLabels(SeqsUpTo((0 - 1)..2, 2))

SpecSubscript == InitSubscript /\ [][NextSubscript]_vars

\* C29: subscripting, for reading and for assignment, with a sequence of integers
\* treats the elements as positions when the labels are not integer-typed and as
\* labels when they are; in the label case reading returns the reindex to those
\* labels (missing at labels the Series lacks) and assignment raises if any of
\* them is absent
C29_IntegerSequenceSubscript ==
    (call.op \in {"get_with", "set_labels"}) =>
        LET self == call.self
            key  == call.key
            n    == Len(self.values)
            pos  == [k \in DOMAIN key |-> position_of(n, key[k])]
            hit  == {i \in 1..n : \E k \in DOMAIN key :
                        IF inferred_type_integer(self.index)
                        THEN self.index[i] = key[k] ELSE pos[k] = i}
        IN  IF inferred_type_integer(self.index)
            THEN IF call.op = "get_with"
                 THEN /\ call.st = "ok"
                      /\ call.ret.index = key
                      /\ \A k \in DOMAIN key : call.ret.values[k] = Aligned(self, key[k])
                 ELSE IF \E k \in DOMAIN key : key[k] \notin Range(self.index)
                 THEN call.st = "raise" /\ reg.A = self
                 ELSE /\ call.st = "ok" /\ reg.A.index = self.index
                      /\ \A i \in 1..n :
                           reg.A.values[i] = IF i \in hit THEN call.val ELSE self.values[i]
            ELSE IF \E k \in DOMAIN key : pos[k] = Absent
            THEN call.st = "raise" /\ reg.A = self
            ELSE IF call.op = "get_with"
            THEN /\ call.st = "ok"
                 /\ \A k \in DOMAIN key :
                      /\ call.ret.values[k] = self.values[pos[k]]
                      /\ call.ret.index[k] = self.index[pos[k]]
                 /\ Len(call.ret.values) = Len(key)
            ELSE /\ call.st = "ok" /\ reg.A.index = self.index
                 /\ \A i \in 1..n :
                      reg.A.values[i] = IF i \in hit THEN call.val ELSE self.values[i]

\* A[[1, 0]] on a Series nan, 1 labelled 'a', 'b': the values at positions 1 and 0
\* with their labels
C29_Witness ==
    /\ call.op = "get_with" /\ call.st = "ok"
    /\ call.self.index = <<101, 102>> /\ call.self.values = <<NaN, 1>>
    /\ call.key = <<1, 0>>
    /\ call.ret.index = <<102, 101>> /\ call.ret.values = <<1, NaN>>

\* ------------------------------------------------- specification: replace with a mapping
\* the equal-length list pairs of replace, each the mapping zip(to_replace, value)
\* with distinct sources: a chain a -> b, b -> c; two swaps; a fractional
\* destination; two sources with one destination; one pair
MappingLists ==
    {<<<<1, 2>>, <<2, NaN>>>>, <<<<1, 2>>, <<2, 1>>>>, <<<<NaN, 1>>, <<1, NaN>>>>,
     <<<<1>>, <<Frac>>>>, <<<<1, 2>>, <<NaN, NaN>>>>, <<<<2>>, <<1>>>>}

\* the pairs whose destinations are not missing: the ones given to an int64 Series
MappingListsFor(self) ==
    IF can_hold_na(self) THEN MappingLists
    ELSE {l \in MappingLists : \A k \in DOMAIN l[2] : notnull(l[2][k])}

InitReplace ==
    /\ \E a \in UniqueFloatSeries(MaxLen, {"x"}) \cup UniqueIntSeries(MaxLen, {"x"}) :
          reg = [A |-> a, B |-> NoSeries]
    /\ call = NoCall

NextReplace == Replace(MappingListsFor(reg.A))

SpecReplace == InitReplace /\ [][NextReplace]_vars

\* C30: replace with a mapping given as two lists of equal length applies all the
\* replacements at once against the original values: every element equal to a
\* source ends up equal to that source's destination, and every element equal to
\* no source is unchanged, also when a destination is itself a source
C30_ReplaceSimultaneous ==
    call.op = "replace" =>
        LET n          == Len(call.key) \div 2
            to_replace == SubSeq(call.key, 1, n)
            value      == SubSeq(call.key, n + 1, 2 * n)
        IN  /\ call.st = "ok"
            /\ Len(call.ret.values) = Len(call.self.values)
            /\ \A i \in DOMAIN call.self.values :
                   IF \E k \in 1..n : call.self.values[i] = to_replace[k]
                   THEN \A k \in 1..n :
                            call.self.values[i] = to_replace[k]
                                => call.ret.values[i] = value[k]
                   ELSE call.ret.values[i] = call.self.values[i]

====
